---- MODULE Spec2Model ----
(***************************************************************************)
(* The API dispatch layer of technitiumdns-wrapper: TechnitiumDnsClient    *)
(* (src/src/api/client.ts), its session token, URL construction, timeout   *)
(* and cancellation handling and response classification; the              *)
(* configuration resolver (src/unnamed/part_000); and pathAdd              *)
(* (src/unnamed/part_001).                                                 *)
(***************************************************************************)
EXTENDS Integers, Sequences, FiniteSets, Bags, TLC

VARIABLES
    auth,              \* this.auth: the configured credentials (read-only)
    requestTimeoutMs,  \* this.requestTimeoutMs
    sessionToken,      \* this.sessionToken
    tokenSource,       \* this.tokenSource
    inflight,          \* the bag of call() invocations suspended in an await
    timers,            \* the number of pending setTimeout timers
    processEnv,        \* process.env, as the configuration resolver or pathAdd reads it
    userConfigFile,    \* the persisted user configuration file
    userConfigCache,   \* userConfigCache of the configuration resolver
    obs                \* what the last step handed to the transport or to the caller

\* the state of the configuration resolver
configVars == <<processEnv, userConfigFile, userConfigCache>>

vars == <<auth, requestTimeoutMs, sessionToken, tokenSource, inflight, timers, configVars, obs>>

----------------------------------------------------------------------------
(* Bounds of the model.                                                    *)

\* calls of one dispatcher that its callers keep suspended at the same time, in the
\* token, the timing and the response specification
TokenInFlight == 1
TimingInFlight == 2
ResponseInFlight == 1

----------------------------------------------------------------------------
(* JavaScript values, as tagged records.                                   *)

Undefined == [t |-> "undefined"]
Null == [t |-> "null"]
Bool(b) == [t |-> "boolean", b |-> b]
Num(n) == [t |-> "number", n |-> n]
Str(s) == [t |-> "string", s |-> s]
Arr(a) == [t |-> "array", a |-> a]
\* a plain object: its own entries <<key, value>>, in insertion order
Obj(e) == [t |-> "object", e |-> e]
\* values the model does not look into (ArrayBuffer, ReadableStream)
Opaque(s) == [t |-> "opaque", s |-> s]

\* ToBoolean: what `if (v)` and `!v` test
Truthy(v) ==
    CASE v.t = "undefined" -> FALSE
      [] v.t = "null" -> FALSE
      [] v.t = "boolean" -> v.b
      [] v.t = "number" -> v.n # 0
      [] v.t = "string" -> v.s # ""
      [] OTHER -> TRUE

\* a ?? b
Coalesce(a, b) == IF a.t \in {"undefined", "null"} THEN b ELSE a

\* typeof v === "string"
IsString(v) == v.t = "string"

\* key in v, for a parsed JSON value v that is an object (an array has no such key)
HasKey(v, key) == v.t = "object" /\ \E i \in 1..Len(v.e) : v.e[i][1] = key

\* v[key]
Get(v, key) ==
    IF HasKey(v, key) THEN v.e[CHOOSE i \in 1..Len(v.e) : v.e[i][1] = key][2] ELSE Undefined

\* String(n) for an integer n
Digit(d) == <<"0", "1", "2", "3", "4", "5", "6", "7", "8", "9">>[d + 1]

RECURSIVE NatToString(_)
NatToString(n) == IF n < 10 THEN Digit(n) ELSE NatToString(n \div 10) \o Digit(n % 10)

IntToString(n) == IF n < 0 THEN "-" \o NatToString(-n) ELSE NatToString(n)

\* String(v) for the scalars of the model
ToStr(v) ==
    CASE v.t = "string" -> v.s
      [] v.t = "number" -> IntToString(v.n)
      [] v.t = "boolean" -> IF v.b THEN "true" ELSE "false"
      [] v.t = "null" -> "null"
      [] v.t = "undefined" -> "undefined"
      [] OTHER -> "[object Object]"

----------------------------------------------------------------------------
(* URLSearchParams: a sequence of <<name, value>> pairs.                   *)

SearchHas(sp, key) == \E i \in 1..Len(sp) : sp[i][1] = key

SearchAppend(sp, key, value) == Append(sp, <<key, value>>)

\* set(): the first pair named key takes the value, the others are removed
FirstIndex(sp, key) == CHOOSE i \in 1..Len(sp) : sp[i][1] = key /\ \A j \in 1..(i - 1) : sp[j][1] # key

RECURSIVE DropOthers(_, _, _, _)
DropOthers(sp, key, keep, i) ==
    IF i > Len(sp) THEN <<>>
    ELSE IF sp[i][1] = key /\ i # keep THEN DropOthers(sp, key, keep, i + 1)
    ELSE <<sp[i]>> \o DropOthers(sp, key, keep, i + 1)

SearchSet(sp, key, value) ==
    IF SearchHas(sp, key)
    THEN LET k == FirstIndex(sp, key)
         IN DropOthers([sp EXCEPT ![k] = <<key, value>>], key, k, 1)
    ELSE Append(sp, <<key, value>>)

\* getAll()
RECURSIVE SearchGetAll(_, _)
SearchGetAll(sp, key) ==
    IF sp = <<>> THEN <<>>
    ELSE (IF Head(sp)[1] = key THEN <<Head(sp)[2]>> ELSE <<>>) \o SearchGetAll(Tail(sp), key)

----------------------------------------------------------------------------
(* The endpoint catalog (./endpoints).                                     *)

Catalog ==
    << [id |-> "user.login", method |-> "POST", path |-> "/user/login",
        defaultQuery |-> Undefined, requiresToken |-> Bool(FALSE)],
       [id |-> "user.logout", method |-> "POST", path |-> "/user/logout",
        defaultQuery |-> Undefined, requiresToken |-> Bool(TRUE)],
       [id |-> "zones.list", method |-> "GET", path |-> "/zones/list",
        defaultQuery |-> Undefined, requiresToken |-> Bool(TRUE)],
       [id |-> "dashboard.stats.get", method |-> "GET", path |-> "/dashboard/stats/get",
        defaultQuery |-> Obj(<< <<"type", Str("LastHour")>>, <<"utc", Bool(TRUE)>> >>),
        requiresToken |-> Bool(TRUE)] >>

listEndpointIds == {Catalog[i].id : i \in 1..Len(Catalog)}

\* the definition of a known identifier (the lookup throws NotFoundError otherwise)
getEndpointDefinition(endpointId) == Catalog[CHOOSE i \in 1..Len(Catalog) : Catalog[i].id = endpointId]

----------------------------------------------------------------------------
(* Pure helpers of the client.                                             *)

DEFAULT_TIMEOUT_MS == 15000

RECURSIVE JoinComma(_)
JoinComma(ss) ==
    IF ss = <<>> THEN ""
    ELSE IF Len(ss) = 1 THEN ss[1]
    ELSE ss[1] \o "," \o JoinComma(Tail(ss))

\* a slip: every value is rendered by String(value)
toQueryStringValue_String(value) == ToStr(value)

RECURSIVE toQueryStringValue(_)
toQueryStringValue(value) ==
    IF value.t = "array"
    THEN JoinComma([i \in 1..Len(value.a) |-> toQueryStringValue(value.a[i])])
    ELSE IF value = Bool(TRUE) THEN "true"
    ELSE IF value = Bool(FALSE) THEN "false"
    ELSE IF value.t \in {"null", "undefined"} THEN ""
    ELSE ToStr(value)

\* the loop over Object.entries(endpoint.defaultQuery), from entry i on
RECURSIVE ApplyDefaultQuery(_, _, _)
ApplyDefaultQuery(sp, entries, i) ==
    IF i > Len(entries) THEN sp
    ELSE ApplyDefaultQuery(SearchSet(sp, entries[i][1], ToStr(entries[i][2])), entries, i + 1)

\* a slip: an array is appended as one comma-joined entry
AppendEntries_Joined(sp, key, a, i) == SearchAppend(sp, key, toQueryStringValue(Arr(a)))

\* value.filter(entry => entry !== undefined && entry !== null).forEach(append)
RECURSIVE AppendEntries(_, _, _, _)
AppendEntries(sp, key, a, i) ==
    IF i > Len(a) THEN sp
    ELSE IF a[i].t \in {"undefined", "null"} THEN AppendEntries(sp, key, a, i + 1)
    ELSE AppendEntries(SearchAppend(sp, key, toQueryStringValue(a[i])), key, a, i + 1)

\* the loop over Object.entries(options.query), from entry i on
RECURSIVE ApplyQuery(_, _, _)
ApplyQuery(sp, entries, i) ==
    IF i > Len(entries) THEN sp
    ELSE LET key == entries[i][1]
             value == entries[i][2]
         IN IF value.t = "undefined" THEN ApplyQuery(sp, entries, i + 1)
            ELSE IF value.t = "array"
                 THEN ApplyQuery(AppendEntries(sp, key, value.a, 1), entries, i + 1)
            ELSE ApplyQuery(SearchSet(sp, key, toQueryStringValue(value)), entries, i + 1)

\* the search parameters after the default and the caller's query were applied
QueryParamsOf(endpoint, options) ==
    LET sp0 == IF Truthy(endpoint.defaultQuery)
               THEN ApplyDefaultQuery(<<>>, endpoint.defaultQuery.e, 1) ELSE <<>>
    IN IF Truthy(options.query) THEN ApplyQuery(sp0, options.query.e, 1) ELSE sp0

\* a slip: only the per-call includeToken is consulted
shouldIncludeToken_IgnoreFlag(endpoint, options) == Truthy(Coalesce(options.includeToken, Bool(FALSE)))

shouldIncludeToken(endpoint, options) ==
    Truthy(Coalesce(options.includeToken, Coalesce(endpoint.requiresToken, Bool(FALSE))))

\* a slip: the configured token is taken before the session token
ResolveToken_ConfigFirst(options, session, authCfg) ==
    Coalesce(options.token, Coalesce(authCfg.token, session))

\* const token = options.token ?? this.sessionToken ?? this.auth?.token
ResolveToken(options, session, authCfg) == Coalesce(options.token, Coalesce(session, authCfg.token))

\* a slip: the token is attached without the check that there is one
buildUrl_NoTokenCheck(endpoint, options, session, authCfg) ==
    LET sp == QueryParamsOf(endpoint, options)
        token == ResolveToken(options, session, authCfg)
    IN IF shouldIncludeToken(endpoint, options) /\ ~SearchHas(sp, "token")
       THEN [threw |-> FALSE, path |-> endpoint.path,
             search |-> SearchSet(sp, "token", IF Truthy(token) THEN token.s ELSE "")]
       ELSE [threw |-> FALSE, path |-> endpoint.path, search |-> sp]

\* a slip: the token is attached without the check that the caller supplied one
buildUrl_Overwrite(endpoint, options, session, authCfg) ==
    LET sp == QueryParamsOf(endpoint, options)
        token == ResolveToken(options, session, authCfg)
    IN IF shouldIncludeToken(endpoint, options)
       THEN IF ~Truthy(token)
            THEN [threw |-> TRUE, error |-> "TechnitiumConfigurationError"]
            ELSE [threw |-> FALSE, path |-> endpoint.path,
                  search |-> SearchSet(sp, "token", token.s)]
       ELSE [threw |-> FALSE, path |-> endpoint.path, search |-> sp]

\* buildUrl: the URL, or the ConfigurationError it throws
buildUrl(endpoint, options, session, authCfg) ==
    LET sp == QueryParamsOf(endpoint, options)
        token == ResolveToken(options, session, authCfg)
    IN IF shouldIncludeToken(endpoint, options) /\ ~SearchHas(sp, "token")
       THEN IF ~Truthy(token)
            THEN [threw |-> TRUE, error |-> "TechnitiumConfigurationError"]
            ELSE [threw |-> FALSE, path |-> endpoint.path,
                  search |-> SearchSet(sp, "token", token.s)]
       ELSE [threw |-> FALSE, path |-> endpoint.path, search |-> sp]

----------------------------------------------------------------------------
(* Errors (./errors and the platform's).                                   *)

\* new DOMException(..., name)
DOMException(name) == [name |-> name, dom |-> TRUE]
\* any other thrown value
PlainError(name, message) == [name |-> name, dom |-> FALSE, message |-> message]

NoAbort == [name |-> "none", dom |-> FALSE]

TechnitiumConfigurationError(message) ==
    [name |-> "TechnitiumConfigurationError", dom |-> FALSE, message |-> message]

TechnitiumNotFoundError(endpointId) ==
    [name |-> "TechnitiumNotFoundError", dom |-> FALSE, endpointId |-> endpointId]

TechnitiumHttpError(endpointId, statusCode, payload) ==
    [name |-> "TechnitiumHttpError", dom |-> FALSE, endpointId |-> endpointId,
     endpointPath |-> getEndpointDefinition(endpointId).path,
     message |-> "Request failed with status " \o IntToString(statusCode),
     statusCode |-> statusCode, payload |-> payload]

TechnitiumApiError(endpointId, message, status, payload) ==
    [name |-> "TechnitiumApiError", dom |-> FALSE, endpointId |-> endpointId,
     endpointPath |-> getEndpointDefinition(endpointId).path,
     message |-> message, status |-> status, payload |-> payload]

TechnitiumTimeoutError(endpointId, timeoutMs, cause) ==
    [name |-> "TechnitiumTimeoutError", dom |-> FALSE, endpointId |-> endpointId,
     endpointPath |-> getEndpointDefinition(endpointId).path,
     message |-> "Technitium API request timed out after " \o IntToString(timeoutMs) \o "ms",
     timeoutMs |-> timeoutMs, cause |-> cause]

----------------------------------------------------------------------------
(* Responses of the transport.                                             *)

\* a slip: every status below 400 passes for success
ResponseOk_Below400(response) == response.status < 400

\* Response.ok
ResponseOk(response) == response.status >= 200 /\ response.status <= 299

\* contentType.includes("json"), over the content types of the model
JsonContentTypes == {"application/json", "application/problem+json"}

isJsonLike(contentType) == Truthy(contentType) /\ contentType.s \in JsonContentTypes

\* a read of the body (text(), json(), arrayBuffer()) fails when the request was aborted
BodyReadFails(c) == c.abort # NoAbort

\* a slip: a body that does not parse leaves the payload out
safeParseJson_Omit(c) ==
    LET response == c.response
    IN IF ~Truthy(response.contentType) \/ ~isJsonLike(response.contentType) THEN Undefined
       ELSE IF BodyReadFails(c) \/ ~response.body.valid THEN Undefined
       ELSE response.body.json

\* safeParseJson(response).catch(() => undefined): the payload of an HttpError
safeParseJson(c) ==
    LET response == c.response
    IN IF ~Truthy(response.contentType) \/ ~isJsonLike(response.contentType) THEN Undefined
       ELSE IF BodyReadFails(c) \/ ~response.body.valid
            THEN Obj(<< <<"error", Str("Failed to parse error response as JSON")>>,
                        <<"cause", Str("parse failure")>> >>)
       ELSE response.body.json

WrapOk(value) == Obj(<< <<"status", Str("ok")>>, <<"response", value>> >>)

\* parseResponse: [threw, value] or [threw, error]
parseResponse(c) ==
    LET response == c.response
        forcedType == c.responseType
        failed == [threw |-> TRUE, error |-> c.abort]
    IN IF forcedType = Str("text")
       THEN IF BodyReadFails(c) THEN failed
            ELSE [threw |-> FALSE, value |-> WrapOk(Str(response.body.text))]
       ELSE IF forcedType = Str("arrayBuffer")
       THEN IF BodyReadFails(c) THEN failed
            ELSE [threw |-> FALSE, value |-> WrapOk(Opaque("ArrayBuffer"))]
       ELSE IF forcedType = Str("stream")
       THEN [threw |-> FALSE, value |-> WrapOk(Opaque("ReadableStream"))]
       ELSE IF ~Truthy(response.contentType) \/ ~isJsonLike(response.contentType)
       THEN IF BodyReadFails(c) THEN failed
            ELSE [threw |-> FALSE, value |-> WrapOk(Str(response.body.text))]
       ELSE IF BodyReadFails(c) THEN failed
       ELSE IF ~response.body.valid
       THEN [threw |-> TRUE, error |-> PlainError("SyntaxError", "JSON Parse error")]
       ELSE IF response.body.json.t \notin {"object", "array"}
       THEN [threw |-> FALSE, value |-> WrapOk(response.body.json)]
       ELSE [threw |-> FALSE, value |-> response.body.json]

\* a slip: whatever the try block throws is reported as a timeout
CatchClause_WrapAll(c, error) == TechnitiumTimeoutError(c.endpointId, c.timeoutMs, error)

\* the catch clause of call(): an AbortError DOMException becomes a TimeoutError
CatchClause(c, error) ==
    IF error.dom /\ error.name = "AbortError"
    THEN TechnitiumTimeoutError(c.endpointId, c.timeoutMs, error)
    ELSE error

\* a slip: only the status "error" counts as a failure
IsApiFailure_OnlyError(statusValue) == statusValue = Str("error")

\* statusValue && statusValue !== "ok"
IsApiFailure(statusValue) == Truthy(statusValue) /\ statusValue # Str("ok")

\* a slip: the envelope is returned whole
ResultData_WholeEnvelope(parsed) == parsed

\* "response" in parsed && parsed.response !== undefined ? parsed.response : parsed
ResultData(parsed) ==
    IF HasKey(parsed, "response") /\ Get(parsed, "response") # Undefined
    THEN Get(parsed, "response") ELSE parsed

\* call() from the resolution of fetch on: [threw, error] or [threw, result]
Classify(c) ==
    LET response == c.response
        parsedR == parseResponse(c)
        parsed == parsedR.value
        statusValue == IF IsString(Get(parsed, "status")) THEN Get(parsed, "status") ELSE Undefined
        errorMessage ==
            IF IsString(Get(parsed, "errorMessage")) THEN Get(parsed, "errorMessage") ELSE Undefined
    IN IF ~ResponseOk(response)
       THEN [threw |-> TRUE, call |-> c,
             error |-> CatchClause(c, TechnitiumHttpError(c.endpointId, response.status, safeParseJson(c)))]
       ELSE IF parsedR.threw
       THEN [threw |-> TRUE, call |-> c, error |-> CatchClause(c, parsedR.error)]
       ELSE IF IsApiFailure(statusValue)
       THEN [threw |-> TRUE, call |-> c,
             error |-> CatchClause(c, TechnitiumApiError(c.endpointId,
                          Coalesce(errorMessage,
                                   Str("Technitium API call failed with status " \o statusValue.s)).s,
                          statusValue.s, parsed))]
       ELSE [threw |-> FALSE, call |-> c,
             result |-> [endpoint |-> c.endpointId,
                         data |-> ResultData(parsed),
                         status |-> Coalesce(statusValue, Str("ok")).s,
                         raw |-> parsed,
                         response |-> response]]

----------------------------------------------------------------------------
(* The dispatcher.                                                         *)

\* the constructor, for options with a base URL
Construct(options) ==
    /\ auth = options.auth
    /\ requestTimeoutMs = Coalesce(options.api.timeoutMs, Num(DEFAULT_TIMEOUT_MS)).n
    /\ sessionToken = IF Truthy(options.auth.token) THEN options.auth.token ELSE Undefined
    /\ tokenSource = IF Truthy(options.auth.token) THEN "config" ELSE "unknown"
    /\ inflight = EmptyBag
    /\ timers = 0
    /\ obs = [kind |-> "constructed"]
    \* the configuration resolver plays no part in the specifications of the dispatcher
    /\ processEnv = <<>>
    /\ userConfigFile = [exists |-> FALSE]
    /\ userConfigCache = Null

snapshotToken == [token |-> sessionToken, source |-> tokenSource]

\* a slip: the provenance is left as it was
setToken_TokenOnly(token, source) ==
    /\ sessionToken' = token
    /\ UNCHANGED tokenSource

\* a slip: the token is stored only when there was none
setToken_KeepFirst(token, source) ==
    /\ sessionToken' = IF sessionToken = Undefined THEN token ELSE sessionToken
    /\ tokenSource' = source

setToken(token, source) ==
    /\ sessionToken' = token
    /\ tokenSource' = source

\* the calls in flight, and one of them replaced by its next state
Calls == BagToSet(inflight)

Replace(c, d) == (inflight (-) SetToBag({c})) (+) SetToBag({d})

\* the pending timers that belong to a call in flight
OwnedTimers == BagCardinality([c \in {d \in Calls : d.timerPending} |-> inflight[c]])

\* a slip: the timer is not cleared
ClearTimeout_Skip(ts, c) == ts

\* finally { if (timeoutId) clearTimeout(timeoutId) }: clearing a timer that has fired
\* already does nothing
ClearTimeout(ts, c) == IF c.hasTimer /\ c.timerPending THEN ts - 1 ELSE ts

\* a slip: the timer is armed before the endpoint is looked up
StartCall_ArmFirst(op, endpointId, options, implicitLogout, cap) ==
    IF endpointId \notin listEndpointIds
    THEN /\ obs' = [kind |-> "throw", op |-> op, endpointId |-> endpointId, fetched |-> FALSE,
                    options |-> options, session |-> sessionToken,
                    error |-> TechnitiumNotFoundError(endpointId)]
         /\ timers' = timers + 1
         /\ UNCHANGED inflight
    ELSE LET endpoint == getEndpointDefinition(endpointId)
             url == buildUrl(endpoint, options, sessionToken, auth)
             timeoutMs == Coalesce(options.timeoutMs, Num(requestTimeoutMs)).n
             c == [op |-> op, endpointId |-> endpointId, timeoutMs |-> timeoutMs,
                   hasTimer |-> timeoutMs > 0, timerPending |-> timeoutMs > 0,
                   signal |-> IF Coalesce(options.signal, Undefined) = Undefined
                              THEN "controller" ELSE "caller",
                   responseType |-> options.responseType,
                   implicitLogout |-> implicitLogout,
                   elapsed |-> FALSE, abort |-> NoAbort,
                   phase |-> "fetch"]
         IN IF url.threw
            THEN /\ obs' = [kind |-> "throw", op |-> op, endpointId |-> endpointId,
                            fetched |-> FALSE, options |-> options, session |-> sessionToken,
                            error |-> TechnitiumConfigurationError(
                                "Technitium API token is required but missing. Use login() or setToken().")]
                 /\ UNCHANGED <<inflight, timers>>
            ELSE /\ BagCardinality(inflight) < cap
                 /\ inflight' = inflight (+) SetToBag({c})
                 /\ timers' = IF timeoutMs > 0 THEN timers + 1 ELSE timers
                 /\ obs' = [kind |-> "fetch", op |-> op, endpointId |-> endpointId,
                            options |-> options, session |-> sessionToken, url |-> url,
                            timeoutMs |-> timeoutMs, signal |-> c.signal]

\* call(), up to its first await: throws, or arms the timer and hands the request to fetch.
\* With keepUrl the call in flight carries the URL that fetch was handed; without it the
\* URL is in obs only.
StartRequest(op, endpointId, options, implicitLogout, cap, keepUrl) ==
    IF endpointId \notin listEndpointIds
    THEN /\ obs' = [kind |-> "throw", op |-> op, endpointId |-> endpointId, fetched |-> FALSE,
                    options |-> options, session |-> sessionToken,
                    error |-> TechnitiumNotFoundError(endpointId)]
         /\ UNCHANGED <<inflight, timers>>
    ELSE LET endpoint == getEndpointDefinition(endpointId)
             url == buildUrl(endpoint, options, sessionToken, auth)
             timeoutMs == Coalesce(options.timeoutMs, Num(requestTimeoutMs)).n
             c0 == [op |-> op, endpointId |-> endpointId, timeoutMs |-> timeoutMs,
                    hasTimer |-> timeoutMs > 0, timerPending |-> timeoutMs > 0,
                    signal |-> IF Coalesce(options.signal, Undefined) = Undefined
                               THEN "controller" ELSE "caller",
                    responseType |-> options.responseType,
                    implicitLogout |-> implicitLogout,
                    elapsed |-> FALSE, abort |-> NoAbort,
                    phase |-> "fetch"]
             c == IF keepUrl THEN c0 @@ [url |-> url] ELSE c0
         IN IF url.threw
            THEN /\ obs' = [kind |-> "throw", op |-> op, endpointId |-> endpointId,
                            fetched |-> FALSE, options |-> options, session |-> sessionToken,
                            error |-> TechnitiumConfigurationError(
                                "Technitium API token is required but missing. Use login() or setToken().")]
                 /\ UNCHANGED <<inflight, timers>>
            ELSE /\ BagCardinality(inflight) < cap
                 /\ inflight' = inflight (+) SetToBag({c})
                 /\ timers' = IF timeoutMs > 0 THEN timers + 1 ELSE timers
                 /\ obs' = [kind |-> "fetch", op |-> op, endpointId |-> endpointId,
                            options |-> options, session |-> sessionToken, url |-> url,
                            timeoutMs |-> timeoutMs, signal |-> c.signal]

\* call(), up to its first await, the URL kept in obs only
StartCall(op, endpointId, options, implicitLogout, cap) ==
    StartRequest(op, endpointId, options, implicitLogout, cap, FALSE)

\* a caller invokes call(endpointId, options)
Call(endpointId, options, cap) ==
    /\ StartCall("call", endpointId, options, FALSE, cap)
    /\ UNCHANGED <<configVars, auth, requestTimeoutMs, sessionToken, tokenSource>>

\* a caller invokes call(endpointId, options); the model keeps the URL handed to fetch
\* with the call in flight
CallKeepingUrl(endpointId, options, cap) ==
    /\ StartRequest("call", endpointId, options, FALSE, cap, TRUE)
    /\ UNCHANGED <<configVars, auth, requestTimeoutMs, sessionToken, tokenSource>>

\* a caller invokes login(options)
Login(options, cap) ==
    LET username == Coalesce(options.username, auth.username)
        password == Coalesce(options.password, auth.password)
        query == Obj(<< <<"user", username>>, <<"pass", password>>,
                        <<"totp", Coalesce(options.totp, auth.totp)>>,
                        <<"includeInfo", IF Truthy(options.includeInfo) THEN Str("true") ELSE Undefined>> >>)
        callOptions == [query |-> query, token |-> Undefined, includeToken |-> Bool(FALSE),
                        timeoutMs |-> Undefined, signal |-> Undefined, responseType |-> Undefined]
    IN /\ IF ~Truthy(username) \/ ~Truthy(password)
          THEN /\ obs' = [kind |-> "throw", op |-> "login", endpointId |-> "user.login",
                          fetched |-> FALSE, options |-> callOptions, session |-> sessionToken,
                          error |-> TechnitiumConfigurationError(
                              "Username and password are required for login.")]
               /\ UNCHANGED <<inflight, timers>>
          ELSE StartCall("login", "user.login", callOptions, FALSE, cap)
       /\ UNCHANGED <<configVars, auth, requestTimeoutMs, sessionToken, tokenSource>>

\* a caller invokes logout(token)
Logout(token, cap) ==
    LET chosen == Coalesce(token, Coalesce(sessionToken, auth.token))
        callOptions == [query |-> Obj(<< <<"token", chosen>> >>), token |-> Undefined,
                        includeToken |-> Bool(FALSE), timeoutMs |-> Undefined,
                        signal |-> Undefined, responseType |-> Undefined]
    IN /\ IF ~Truthy(chosen)
          THEN /\ obs' = [kind |-> "throw", op |-> "logout", endpointId |-> "user.logout",
                          fetched |-> FALSE, options |-> callOptions, session |-> sessionToken,
                          error |-> TechnitiumConfigurationError(
                              "No session token available for logout.")]
               /\ UNCHANGED <<inflight, timers>>
          ELSE StartCall("logout", "user.logout", callOptions, ~Truthy(token), cap)
       /\ UNCHANGED <<configVars, auth, requestTimeoutMs, sessionToken, tokenSource>>

\* a caller invokes setToken(token, source), or setToken(token) when source is "omitted":
\* the parameter then takes its default, "explicit"
SetToken(token, source) ==
    /\ setToken(token, IF source = "omitted" THEN "explicit" ELSE source)
    /\ obs' = [kind |-> "setToken", token |-> token, source |-> source]
    /\ UNCHANGED <<configVars, auth, requestTimeoutMs, inflight, timers>>

\* a caller invokes snapshotToken()
SnapshotToken ==
    /\ obs' = [kind |-> "snapshot", value |-> snapshotToken]
    /\ UNCHANGED <<configVars, auth, requestTimeoutMs, sessionToken, tokenSource, inflight, timers>>

\* a slip: logout() clears the session token in a finally clause, so also when its
\* request failed
Complete_ClearOnThrow(c, outcome) ==
    LET data == outcome.result.data
        loginThrows == c.op = "login" /\ ~outcome.threw /\ data.t \in {"null", "undefined"}
    IN /\ inflight' = inflight (-) SetToBag({c})
       /\ timers' = ClearTimeout(timers, c)
       /\ IF c.op = "logout" /\ c.implicitLogout THEN setToken(Undefined, "explicit")
          ELSE IF outcome.threw \/ loginThrows \/ c.op # "login"
          THEN UNCHANGED <<sessionToken, tokenSource>>
          ELSE setToken(Get(data, "token"), "login")
       /\ obs' = IF outcome.threw
                 THEN [kind |-> "throw", op |-> c.op, endpointId |-> c.endpointId,
                       fetched |-> TRUE, call |-> outcome.call, error |-> outcome.error]
                 ELSE IF loginThrows
                 THEN [kind |-> "throw", op |-> c.op, endpointId |-> c.endpointId,
                       fetched |-> TRUE, call |-> outcome.call,
                       error |-> PlainError("TypeError", "null is not an object")]
                 ELSE [kind |-> "return", op |-> c.op, endpointId |-> c.endpointId,
                       fetched |-> TRUE, call |-> outcome.call, result |-> outcome.result]
       /\ UNCHANGED <<configVars, auth, requestTimeoutMs>>

\* call() returns or throws after its await: the finally clause, then the rest of the
\* operation that awaited it (login stores the token, logout clears it)
Complete(c, outcome) ==
    LET data == outcome.result.data
        loginThrows == c.op = "login" /\ ~outcome.threw /\ data.t \in {"null", "undefined"}
    IN /\ inflight' = inflight (-) SetToBag({c})
       /\ timers' = ClearTimeout(timers, c)
       /\ IF outcome.threw \/ loginThrows \/ c.op = "call" \/ (c.op = "logout" /\ ~c.implicitLogout)
          THEN UNCHANGED <<sessionToken, tokenSource>>
          ELSE IF c.op = "login" THEN setToken(Get(data, "token"), "login")
          ELSE setToken(Undefined, "explicit")
       /\ obs' = IF outcome.threw
                 THEN [kind |-> "throw", op |-> c.op, endpointId |-> c.endpointId,
                       fetched |-> TRUE, call |-> outcome.call, error |-> outcome.error]
                 ELSE IF loginThrows
                 THEN [kind |-> "throw", op |-> c.op, endpointId |-> c.endpointId,
                       fetched |-> TRUE, call |-> outcome.call,
                       error |-> PlainError("TypeError", "null is not an object")]
                 ELSE [kind |-> "return", op |-> c.op, endpointId |-> c.endpointId,
                       fetched |-> TRUE, call |-> outcome.call, result |-> outcome.result]
       /\ UNCHANGED <<configVars, auth, requestTimeoutMs>>

\* the timer of call c fires: controller.abort()
TimerFire(c) ==
    /\ c \in Calls
    /\ c.timerPending
    /\ timers' = timers - 1
    /\ inflight' = Replace(c, [c EXCEPT !.timerPending = FALSE, !.elapsed = TRUE,
                                        !.abort = IF c.signal = "controller" /\ c.abort = NoAbort
                                                  THEN DOMException("AbortError") ELSE c.abort])
    /\ obs' = [kind |-> "timer"]
    /\ UNCHANGED <<configVars, auth, requestTimeoutMs, sessionToken, tokenSource>>

\* the caller aborts the signal it passed in options.signal
CallerAbort(c, reason) ==
    /\ c \in Calls
    /\ c.signal = "caller"
    /\ c.abort = NoAbort
    /\ inflight' = Replace(c, [c EXCEPT !.abort = reason])
    /\ obs' = [kind |-> "abort"]
    /\ UNCHANGED <<configVars, auth, requestTimeoutMs, sessionToken, tokenSource, timers>>

\* a slip: the token of the URL is read from the session when the transport answers
FetchResolve_ReadsSession(c) ==
    /\ c \in Calls
    /\ c.phase = "fetch"
    /\ c.abort = NoAbort
    /\ inflight' = Replace(c, IF "url" \in DOMAIN c /\ Truthy(sessionToken)
                              THEN [c EXCEPT !.phase = "body",
                                             !.url.search = SearchSet(@, "token", sessionToken.s)]
                              ELSE [c EXCEPT !.phase = "body"])
    /\ obs' = [kind |-> "response"]
    /\ UNCHANGED <<configVars, auth, requestTimeoutMs, sessionToken, tokenSource, timers>>

\* fetch resolves with a response; call() goes on to read its body
FetchResolve(c) ==
    /\ c \in Calls
    /\ c.phase = "fetch"
    /\ c.abort = NoAbort
    /\ inflight' = Replace(c, [c EXCEPT !.phase = "body"])
    /\ obs' = [kind |-> "response"]
    /\ UNCHANGED <<configVars, auth, requestTimeoutMs, sessionToken, tokenSource, timers>>

\* fetch rejects with a network error
FetchReject(c) ==
    /\ c \in Calls
    /\ c.phase = "fetch"
    /\ c.abort = NoAbort
    /\ Complete(c, [threw |-> TRUE, call |-> c,
                    error |-> CatchClause(c, PlainError("TypeError", "fetch failed"))])

\* fetch rejects with the reason its signal was aborted with
FetchAborted(c) ==
    /\ c \in Calls
    /\ c.phase = "fetch"
    /\ c.abort # NoAbort
    /\ Complete(c, [threw |-> TRUE, call |-> c, error |-> CatchClause(c, c.abort)])

\* call() runs from the resolution of fetch to its return or throw, on the response
\* that fetch resolved with
Finish(c, response) ==
    /\ c \in Calls
    /\ c.phase = "body"
    /\ Complete(c, Classify(c @@ [response |-> response]))

----------------------------------------------------------------------------
(* Inputs.                                                                 *)

ApiCallOptions(query, token, includeToken, timeoutMs, signal, responseType) ==
    [query |-> query, token |-> token, includeToken |-> includeToken,
     timeoutMs |-> timeoutMs, signal |-> signal, responseType |-> responseType]

NoOptions == ApiCallOptions(Undefined, Undefined, Undefined, Undefined, Undefined, Undefined)

ClientOptions(token, credentials, timeoutMs) ==
    [api |-> [baseUrl |-> Str("http://localhost:5380/api"), timeoutMs |-> timeoutMs],
     auth |-> [token |-> token, username |-> credentials, password |-> credentials,
               totp |-> Undefined]]

NoOverrides == [username |-> Undefined, password |-> Undefined, totp |-> Undefined,
                includeInfo |-> Undefined]

JsonBody(text, json) == [text |-> text, valid |-> TRUE, json |-> json]
BadBody(text) == [text |-> text, valid |-> FALSE, json |-> Undefined]

Response(status, contentType, body) == [status |-> status, contentType |-> contentType, body |-> body]

LoginOkResponse ==
    Response(200, Str("application/json"),
             JsonBody("{status:ok,token:L}", Obj(<< <<"status", Str("ok")>>, <<"token", Str("L")>> >>)))

EmptyOkResponse ==
    Response(200, Str("application/json"),
             JsonBody("{status:ok,response:{}}", Obj(<< <<"status", Str("ok")>>, <<"response", Obj(<<>>)>> >>)))

InvalidTokenResponse ==
    Response(200, Str("application/json"),
             JsonBody("{status:invalid-token,errorMessage:Invalid token}",
                      Obj(<< <<"status", Str("invalid-token")>>, <<"errorMessage", Str("Invalid token")>> >>)))

NotFoundResponse == Response(404, Str("text/html"), BadBody("<html>"))

----------------------------------------------------------------------------------------------------------------------------------------
(* The token specification: calls that differ in how they ask for a token. *)

TokenQueries ==
    { Undefined,
      Obj(<< <<"token", Str("Q")>> >>),
      Obj(<< <<"token", Str("")>> >>),
      Obj(<< <<"domain", Str("example.com")>>, <<"token", Arr(<<Null>>)>> >>) }

TokenOptions ==
    { ApiCallOptions(q, tk, inc, Undefined, Undefined, Undefined) :
        q \in TokenQueries, tk \in {Undefined, Str(""), Str("E")},
        inc \in {Undefined, Bool(TRUE), Bool(FALSE)} }

\* an endpoint that needs no token is called with and without includeToken
PublicOptions ==
    { ApiCallOptions(Undefined, tk, inc, Undefined, Undefined, Undefined) :
        tk \in {Undefined, Str("E")}, inc \in {Undefined, Bool(TRUE)} }

TokenResponses == {LoginOkResponse, InvalidTokenResponse}

InitToken == \E tk \in {Undefined, Str(""), Str("F")} : Construct(ClientOptions(tk, Str("admin"), Undefined))

NextToken ==
    \/ \E o \in TokenOptions : Call("zones.list", o, TokenInFlight)
    \/ \E o \in PublicOptions : Call("user.login", o, TokenInFlight)
    \/ Call("no.such.endpoint", NoOptions, TokenInFlight)
    \/ \E u \in {Undefined, Str("")} : Login([NoOverrides EXCEPT !.username = u], TokenInFlight)
    \/ \E tk \in {Undefined, Str(""), Str("X")} : Logout(tk, TokenInFlight)
    \/ \E tk \in {Undefined, Str(""), Str("S")} : SetToken(tk, "explicit")
    \/ \E c \in Calls : TimerFire(c)
    \/ \E c \in Calls : FetchResolve(c)
    \/ \E c \in Calls : FetchReject(c)
    \/ \E c \in Calls : FetchAborted(c)
    \/ \E c \in Calls, r \in TokenResponses : Finish(c, r)

SpecToken == InitToken /\ [][NextToken]_vars

----------------------------------------------------------------------------
(* The timing specification: calls that differ in their budget and signal. *)

TimingOptions ==
    { ApiCallOptions(Undefined, Undefined, Undefined, ms, sig, Undefined) :
        ms \in {Undefined, Num(0), Num(5000)}, sig \in {Undefined, Opaque("AbortSignal")} }

\* what a caller aborts its signal with: abort() without a reason, or with its own
AbortReasons == {DOMException("AbortError"), PlainError("Error", "cancelled by the caller")}

TimingResponses == {EmptyOkResponse, NotFoundResponse}

InitTiming ==
    \E ms \in {Undefined, Num(9000)} : Construct(ClientOptions(Str("F"), Str("admin"), ms))

NextTiming ==
    \/ \E o \in TimingOptions : Call("zones.list", o, TimingInFlight)
    \/ \E c \in Calls : TimerFire(c)
    \/ \E c \in Calls, r \in AbortReasons : CallerAbort(c, r)
    \/ \E c \in Calls : FetchResolve(c)
    \/ \E c \in Calls : FetchReject(c)
    \/ \E c \in Calls : FetchAborted(c)
    \/ \E c \in Calls, r \in TimingResponses : Finish(c, r)

SpecTiming == InitTiming /\ [][NextTiming]_vars

----------------------------------------------------------------------------
(* The response specification: calls that differ in the response they get. *)

Envelope(entries) == Obj(entries)

ResponseBodies ==
    { JsonBody("{status:ok,response:{x:1}}",
               Envelope(<< <<"status", Str("ok")>>, <<"response", Obj(<< <<"x", Num(1)>> >>)>> >>)),
      JsonBody("{status:ok,response:null}",
               Envelope(<< <<"status", Str("ok")>>, <<"response", Null>> >>)),
      JsonBody("{status:ok,zones:[]}",
               Envelope(<< <<"status", Str("ok")>>, <<"zones", Arr(<<>>)>> >>)),
      JsonBody("{response:{x:1}}", Envelope(<< <<"response", Obj(<< <<"x", Num(1)>> >>)>> >>)),
      JsonBody("{}", Envelope(<<>>)),
      JsonBody("{status:error,errorMessage:bad zone}",
               Envelope(<< <<"status", Str("error")>>, <<"errorMessage", Str("bad zone")>> >>)),
      JsonBody("{status:invalid-token}", Envelope(<< <<"status", Str("invalid-token")>> >>)),
      JsonBody("{status:error,errorMessage:404}",
               Envelope(<< <<"status", Str("error")>>, <<"errorMessage", Num(404)>> >>)),
      JsonBody("{status:500,errorMessage:boom}",
               Envelope(<< <<"status", Num(500)>>, <<"errorMessage", Str("boom")>> >>)),
      JsonBody("{status:''}", Envelope(<< <<"status", Str("")>> >>)),
      JsonBody("[1]", Arr(<<Num(1)>>)),
      JsonBody("5", Num(5)),
      BadBody("<html>") }

ResponseSet ==
    { Response(st, ct, b) :
        st \in {200, 300, 404},
        ct \in {Null, Str("application/json"), Str("text/plain")},
        b \in ResponseBodies }

ResponseOptions ==
    { ApiCallOptions(Undefined, Undefined, Undefined, Undefined, Undefined, rt) :
        rt \in {Undefined, Str("json"), Str("text"), Str("arrayBuffer"), Str("stream")} }

InitResponse == Construct(ClientOptions(Str("F"), Str("admin"), Undefined))

NextResponse ==
    \/ \E o \in ResponseOptions : Call("zones.list", o, ResponseInFlight)
    \/ \E c \in Calls : TimerFire(c)
    \/ \E c \in Calls : FetchResolve(c)
    \/ \E c \in Calls : FetchReject(c)
    \/ \E c \in Calls : FetchAborted(c)
    \/ \E c \in Calls, r \in ResponseSet : Finish(c, r)

SpecResponse == InitResponse /\ [][NextResponse]_vars

----------------------------------------------------------------------------
(* Token injection: C1 to C4, under SpecToken.                             *)

\* the last step was call() up to its first await: it threw, or handed a request to fetch
Dispatched == obs.kind = "fetch" \/ (obs.kind = "throw" /\ ~obs.fetched)

\* the endpoint of the last step is in the catalog with its requiresToken flag set
RequiresToken ==
    /\ obs.endpointId \in listEndpointIds
    /\ getEndpointDefinition(obs.endpointId).requiresToken = Bool(TRUE)

\* the values of the `token` parameters of the URL handed to fetch
UrlTokens == SearchGetAll(obs.url.search, "token")

\* the URL carries a token parameter, and none that is empty
CarriesToken == UrlTokens # <<>> /\ \A i \in 1..Len(UrlTokens) : UrlTokens[i] # ""

\* the `token` parameters that the caller's own query supplies: a scalar gives one, an
\* array one for each entry that is neither null nor undefined, undefined gives none
RECURSIVE Defined(_)
Defined(a) ==
    IF a = <<>> THEN <<>>
    ELSE (IF Head(a).t \in {"null", "undefined"} THEN <<>> ELSE <<toQueryStringValue(Head(a))>>)
         \o Defined(Tail(a))

CallerTokens ==
    LET q == obs.options.query
        v == Get(q, "token")
    IN IF v.t = "undefined" THEN <<>>
       ELSE IF v.t = "array" THEN Defined(v.a)
       ELSE <<toQueryStringValue(v)>>

\* C1, as claimed: every request handed to the transport for an endpoint whose
\* requiresToken flag is set carries a non-empty token query parameter.
C1_EveryRequestCarriesToken == (obs.kind = "fetch" /\ RequiresToken) => CarriesToken

\* C1, amended: every request handed to the transport for an endpoint whose requiresToken
\* flag is set carries a non-empty token query parameter, provided the call did not pass
\* includeToken: false and its own query supplied no token parameter; the request of
\* logout() always carries a non-empty token.
C1_RequestCarriesTokenUnlessOptedOut ==
    /\ (obs.kind = "fetch" /\ RequiresToken /\ obs.options.includeToken # Bool(FALSE)
        /\ CallerTokens = <<>>) => CarriesToken
    /\ (obs.kind = "fetch" /\ obs.op = "logout") => CarriesToken

\* a token-requiring request goes out with the token that a login stored
C1_Witness ==
    /\ obs.kind = "fetch" /\ obs.op = "call" /\ RequiresToken
    /\ obs.options.includeToken = Undefined /\ obs.options.token = Undefined
    /\ CallerTokens = <<>>
    /\ obs.session = Str("L")
    /\ UrlTokens = <<"L">>

\* neither a per-call token, nor a session token, nor a configured one
NoTokenAnywhere ==
    /\ ~Truthy(obs.options.token)
    /\ ~Truthy(obs.session)
    /\ ~Truthy(auth.token)

FailsFast ==
    /\ obs.kind = "throw"
    /\ obs.error.name = "TechnitiumConfigurationError"
    /\ ~obs.fetched

\* C2, as claimed: call() on an endpoint that requires a token, with no per-call token,
\* no session token and no configured token, fails with ConfigurationError and never
\* invokes the transport.
C2_NoTokenFailsFast ==
    (Dispatched /\ obs.op = "call" /\ RequiresToken /\ NoTokenAnywhere) => FailsFast

\* C2, amended: the same, for a call that neither passes includeToken: false nor supplies
\* a token parameter in its own query.
C2_NoTokenFailsFastUnlessOptedOut ==
    (Dispatched /\ obs.op = "call" /\ RequiresToken /\ NoTokenAnywhere
     /\ obs.options.includeToken # Bool(FALSE) /\ CallerTokens = <<>>) => FailsFast

C2_Witness ==
    /\ Dispatched /\ obs.op = "call" /\ RequiresToken /\ NoTokenAnywhere
    /\ obs.options.includeToken = Undefined /\ CallerTokens = <<>>
    /\ FailsFast
    /\ inflight = EmptyBag

\* C3: on an endpoint requiring a token, with no token parameter in the caller's query,
\* the attached token is the per-call token if one is given, otherwise the session
\* token if one is held, otherwise the configured token (a token that is undefined or
\* empty is not given, held or configured).
C3_TokenPrecedence ==
    LET expected == IF Truthy(obs.options.token) THEN obs.options.token
                    ELSE IF Truthy(obs.session) THEN obs.session
                    ELSE auth.token
    IN (Dispatched /\ obs.op = "call" /\ RequiresToken /\ obs.options.includeToken # Bool(FALSE)
        /\ CallerTokens = <<>> /\ Truthy(expected))
       => (obs.kind = "fetch" /\ UrlTokens = <<expected.s>>)

----------------------------------------------------------------------------
(* Timeout and cancellation: C5 to C7, under SpecTiming.                   *)

\* the last step was the return or the throw of a call() that had reached fetch
Settled == obs.kind \in {"return", "throw"} /\ obs.fetched

\* C5: whatever the options of a call, also with a caller-supplied signal, once its
\* budget has elapsed its transport request is aborted.
C5_ElapsedBudgetAbortsTransport == \A c \in Calls : c.elapsed => c.abort # NoAbort

\* C6, as claimed: the number of armed timers equals the number of calls in flight.
C6_TimersEqualCallsInFlight == timers = BagCardinality(inflight)

\* C6, amended: when call() returns or throws by any exit path, no timer that it armed
\* remains pending: every pending timer belongs to a call still in flight, so there are
\* never more pending timers than calls in flight (a call in flight has none when its
\* budget is not positive or its timer has fired).
C6_NoTimerOutlivesItsCall ==
    /\ timers = OwnedTimers
    /\ timers <= BagCardinality(inflight)

\* a call returned or threw while its timer was pending, and the only pending timer left
\* is that of the call still in flight
C6_Witness ==
    /\ Settled
    /\ obs.call.timerPending
    /\ BagCardinality(inflight) = 1
    /\ timers = 1

\* C7: a call fails with TimeoutError only when its budget elapsed; a call aborted through
\* the caller's signal before that throws the caller's abort reason.
C7_TimeoutOnlyWhenBudgetElapsed ==
    Settled =>
        /\ (obs.kind = "throw" /\ obs.error.name = "TechnitiumTimeoutError") => obs.call.elapsed
        /\ (obs.call.signal = "caller" /\ obs.call.abort # NoAbort /\ ~obs.call.elapsed
            /\ obs.call.phase = "fetch")
           => (obs.kind = "throw" /\ obs.error = obs.call.abort)

----------------------------------------------------------------------------
(* Response classification: C8 to C10, under SpecResponse.                 *)

\* the last step was the return or the throw of a call() whose fetch had resolved
Responded == Settled /\ "response" \in DOMAIN obs.call

\* the response was 2xx and its body was decoded: the envelope that call() classifies
Decoded == Responded /\ ResponseOk(obs.call.response) /\ ~parseResponse(obs.call).threw

DecodedEnvelope == parseResponse(obs.call).value

IsApiError ==
    /\ obs.kind = "throw"
    /\ obs.error.name = "TechnitiumApiError"
    /\ obs.error.endpointId = obs.endpointId
    /\ obs.error.endpointPath = getEndpointDefinition(obs.endpointId).path
    /\ obs.error.payload = DecodedEnvelope

\* C8, as claimed: a 2xx response whose decoded envelope has a status field that is
\* present and is not "ok" makes call() fail with ApiError carrying the envelope's
\* errorMessage as message.
C8_AnyOtherStatusIsApiError ==
    (Decoded /\ HasKey(DecodedEnvelope, "status") /\ Get(DecodedEnvelope, "status") # Str("ok"))
    => /\ IsApiError
       /\ IsString(Get(DecodedEnvelope, "errorMessage"))
          => obs.error.message = Get(DecodedEnvelope, "errorMessage").s

\* C8, amended: a 2xx response whose decoded envelope has a status field that is a
\* non-empty string other than "ok" makes call() fail with ApiError carrying that status,
\* the endpoint id and path, the full payload, and as message the envelope's errorMessage
\* when that is a string (a message naming the status otherwise); a status that is not a
\* string, or is empty, is read as success.
C8_StringStatusIsApiError ==
    LET status == Get(DecodedEnvelope, "status")
        message == Get(DecodedEnvelope, "errorMessage")
    IN Decoded =>
        IF IsString(status) /\ status.s # "" /\ status.s # "ok"
        THEN /\ IsApiError
             /\ obs.error.status = status.s
             /\ obs.error.message = IF IsString(message) THEN message.s
                                    ELSE "Technitium API call failed with status " \o status.s
        ELSE obs.kind = "return"

C8_Witness ==
    /\ Decoded
    /\ Get(DecodedEnvelope, "status") = Str("error")
    /\ IsApiError
    /\ obs.error.message = "bad zone"

\* C9: on a 2xx response whose envelope reports success, result.data is the envelope's
\* response field when it has one and the whole envelope otherwise, and result.status
\* is "ok" whenever the envelope has no status.
C9_DataIsResponseOrEnvelope ==
    (Decoded /\ obs.kind = "return") =>
        /\ obs.result.raw = DecodedEnvelope
        /\ obs.result.data = IF HasKey(DecodedEnvelope, "response")
                             THEN Get(DecodedEnvelope, "response") ELSE DecodedEnvelope
        /\ ~HasKey(DecodedEnvelope, "status") => obs.result.status = "ok"

\* {"status":"ok","response":{"x":1}} yields the data {"x":1}
C9_Witness ==
    /\ Decoded /\ obs.kind = "return"
    /\ obs.call.response.body.text = "{status:ok,response:{x:1}}"
    /\ obs.call.responseType = Undefined
    /\ obs.result.data = Obj(<< <<"x", Num(1)>> >>)

\* C10: every response whose status is not 2xx makes call() fail with HttpError carrying
\* that status, whatever the body, the content type and the requested responseType.
C10_Non2xxIsHttpError ==
    (Responded /\ ~(obs.call.response.status \in 200..299)) =>
        /\ obs.kind = "throw"
        /\ obs.error.name = "TechnitiumHttpError"
        /\ obs.error.statusCode = obs.call.response.status

\* a 404 with an error envelope in its body, read as text after the budget elapsed
C10_Witness ==
    /\ Responded
    /\ obs.call.response.status = 404
    /\ obs.call.response.body.text = "{status:error,errorMessage:bad zone}"
    /\ obs.call.responseType = Str("text")
    /\ obs.call.elapsed
    /\ obs.kind = "throw" /\ obs.error.name = "TechnitiumHttpError" /\ obs.error.statusCode = 404

----------------------------------------------------------------------------
(* Payload of an HttpError: C11, under SpecResponse.                       *)

\* the last step answered a non-2xx response that declares JSON and whose body does not parse
UnparsableHttpFailure ==
    /\ Responded
    /\ ~(obs.call.response.status \in 200..299)
    /\ isJsonLike(obs.call.response.contentType)
    /\ ~obs.call.response.body.valid

IsHttpErrorOfResponse ==
    /\ obs.kind = "throw"
    /\ obs.error.name = "TechnitiumHttpError"
    /\ obs.error.statusCode = obs.call.response.status

\* C11, as claimed: a non-2xx response that declares a JSON content type and whose body
\* fails to parse raises the HttpError with the original status and with no payload.
C11_UnparsableBodyOmitsPayload ==
    UnparsableHttpFailure => (IsHttpErrorOfResponse /\ obs.error.payload = Undefined)

\* C11, amended: such a response raises the HttpError with the original status, and its
\* payload is an object with the fields error ("Failed to parse error response as JSON")
\* and cause; the payload is left out only when the response declares no JSON content type.
C11_UnparsableBodyGivesDiagnosticPayload ==
    /\ UnparsableHttpFailure =>
          /\ IsHttpErrorOfResponse
          /\ Get(obs.error.payload, "error") = Str("Failed to parse error response as JSON")
          /\ HasKey(obs.error.payload, "cause")
    /\ (Responded /\ ~(obs.call.response.status \in 200..299)
        /\ ~isJsonLike(obs.call.response.contentType))
       => (IsHttpErrorOfResponse /\ obs.error.payload = Undefined)

\* a 404 that declares application/json with an HTML body
C11_Witness ==
    /\ UnparsableHttpFailure
    /\ obs.call.response.status = 404
    /\ obs.call.response.body.text = "<html>"
    /\ obs.call.abort = NoAbort
    /\ IsHttpErrorOfResponse
    /\ HasKey(obs.error.payload, "error")

----------------------------------------------------------------------------
(* The query specification: calls that differ in their query parameters.   *)

QueryInFlight == 1
MaxArrayLen == 2

QueryKeys == {"type", "utc", "tag"}

QueryScalars == {Str("a"), Str("b"), Num(7), Bool(TRUE), Bool(FALSE), Null, Undefined}

\* the arrays of at most MaxArrayLen entries, and two more: one with an undefined entry,
\* one with an array in it
QueryArrays ==
    { Arr(a) : a \in UNION { [1..n -> {Str("a"), Str("b"), Null}] : n \in 0..MaxArrayLen } }
    \cup { Arr(<<Str("a"), Undefined>>), Arr(<<Arr(<<Str("a"), Str("b")>>), Num(7)>>) }

QueryValues == QueryScalars \cup QueryArrays

\* no query, a query of one entry, or a query of two entries that are scalars
Queries ==
    {Undefined}
    \cup { Obj(<< <<k, v>> >>) : k \in QueryKeys, v \in QueryValues }
    \cup { Obj(<< <<k, v>>, <<"utc", w>> >>) : k \in {"type", "tag"}, v \in QueryScalars,
                                               w \in {Bool(FALSE), Undefined} }

QueryOptions ==
    { ApiCallOptions(q, Undefined, Undefined, Undefined, Undefined, Undefined) : q \in Queries }

InitQuery == Construct(ClientOptions(Str("F"), Str("admin"), Undefined))

NextQuery ==
    \/ \E o \in QueryOptions : Call("dashboard.stats.get", o, QueryInFlight)
    \/ \E o \in QueryOptions : Call("zones.list", o, QueryInFlight)
    \/ \E c \in Calls : TimerFire(c)
    \/ \E c \in Calls : FetchResolve(c)
    \/ \E c \in Calls : FetchReject(c)
    \/ \E c \in Calls : FetchAborted(c)
    \/ \E c \in Calls, r \in {EmptyOkResponse, NotFoundResponse} : Finish(c, r)

SpecQuery == InitQuery /\ [][NextQuery]_vars

----------------------------------------------------------------------------
(* Query encoding: C12 to C14, under SpecQuery.                            *)

\* the values of the parameters named key in the URL handed to fetch
UrlValues(key) == SearchGetAll(obs.url.search, key)

\* the caller's query gives the key a value other than undefined
Supplied(key) == Get(obs.options.query, key) # Undefined

\* what the caller's value of the key asks for: a scalar one value, an array one for
\* each entry that is neither null nor undefined
CallerValues(key) ==
    LET v == Get(obs.options.query, key)
    IN IF v.t = "array" THEN Defined(v.a) ELSE <<toQueryStringValue(v)>>

\* the default query of the endpoint of the last step, as a JS object ({} when it has none)
DefaultQueryOfCall ==
    LET dq == getEndpointDefinition(obs.endpointId).defaultQuery
    IN IF Truthy(dq) THEN dq ELSE Obj(<<>>)

\* C12: in the URL built for a call, a key that is both in the endpoint's default query
\* and in the caller's query, as a scalar or as an array, carries only the caller's
\* value(s); a default key that the caller did not supply carries its default value.
C12_CallerValuesReplaceDefaults ==
    obs.kind = "fetch" =>
        \A i \in 1..Len(DefaultQueryOfCall.e) :
            LET key == DefaultQueryOfCall.e[i][1]
            IN IF Supplied(key) THEN UrlValues(key) = CallerValues(key)
               ELSE UrlValues(key) = <<ToStr(DefaultQueryOfCall.e[i][2])>>

\* the string form the encoding rules give a scalar
ScalarForm(v) ==
    CASE v = Bool(TRUE) -> "true"
      [] v = Bool(FALSE) -> "false"
      [] v.t \in {"null", "undefined"} -> ""
      [] OTHER -> ToStr(v)

\* the value the endpoint's default query gives the key, if any
DefaultValues(key) ==
    IF HasKey(DefaultQueryOfCall, key) THEN <<ToStr(Get(DefaultQueryOfCall, key))>> ELSE <<>>

\* C13, as claimed: a caller query value that is an array of n scalar entries yields
\* exactly n entries under its key, in array order, never one comma-joined entry.
C13_ArrayYieldsOneEntryPerElement ==
    obs.kind = "fetch" =>
        \A key \in QueryKeys :
            LET v == Get(obs.options.query, key)
            IN (v.t = "array" /\ \A i \in 1..Len(v.a) : v.a[i].t # "array")
               => UrlValues(key) = [i \in 1..Len(v.a) |-> ScalarForm(v.a[i])]

\* C13, amended: a caller query value that is an array yields one entry for each of its
\* entries that is neither null nor undefined, in array order, appended after the
\* default value of the key when the endpoint's default query has one; never one
\* comma-joined entry for the array (an entry that is itself an array is comma-joined).
C13_ArrayAppendsDefinedEntries ==
    obs.kind = "fetch" =>
        \A key \in QueryKeys :
            LET v == Get(obs.options.query, key)
            IN v.t = "array" => UrlValues(key) = DefaultValues(key) \o Defined(v.a)

\* {tag: ["a", "b"]} gives tag=a&tag=b
C13_Witness ==
    /\ obs.kind = "fetch"
    /\ obs.options.query = Obj(<< <<"tag", Arr(<<Str("a"), Str("b")>>)>> >>)
    /\ UrlValues("tag") = <<"a", "b">>

\* C14, as claimed: a scalar caller query value is encoded as "true" for true, "false"
\* for false, the empty string for null and for undefined (the key is in the query with
\* an empty value), and its default string form otherwise.
C14_ScalarEncoding ==
    obs.kind = "fetch" =>
        \A key \in QueryKeys :
            LET v == Get(obs.options.query, key)
            IN (HasKey(obs.options.query, key) /\ v.t # "array")
               => UrlValues(key) = <<ScalarForm(v)>>

\* C14, amended: the same for every scalar but undefined; a key whose value is undefined
\* is skipped: the caller's query adds no entry for it, and the key carries its default
\* value when the endpoint's default query has one.
C14_ScalarEncodingSkipsUndefined ==
    obs.kind = "fetch" =>
        \A key \in QueryKeys :
            LET v == Get(obs.options.query, key)
            IN (HasKey(obs.options.query, key) /\ v.t # "array")
               => UrlValues(key) = IF v = Undefined THEN DefaultValues(key) ELSE <<ScalarForm(v)>>

\* {tag: null} gives tag= with an empty value
C14_Witness ==
    /\ obs.kind = "fetch"
    /\ obs.options.query = Obj(<< <<"tag", Null>> >>)
    /\ UrlValues("tag") = <<"">>

----------------------------------------------------------------------------
(* Unknown endpoints: C15, under SpecToken.                                *)

\* the step was a call() with an identifier that the catalog does not have
UnknownEndpointStep ==
    /\ obs'.kind \in {"fetch", "throw"}
    /\ obs'.op = "call"
    /\ obs'.endpointId \notin listEndpointIds

\* C15: call() with an endpoint identifier absent from the catalog fails with
\* NotFoundError before the transport is invoked: the step builds no URL, arms no timer
\* and starts no request, and leaves the session token as it was.
C15_UnknownEndpointFailsBeforeTransport ==
    [][UnknownEndpointStep =>
          /\ obs'.kind = "throw"
          /\ obs'.error = TechnitiumNotFoundError(obs'.endpointId)
          /\ ~obs'.fetched
          /\ "url" \notin DOMAIN obs'
          /\ timers' = timers
          /\ inflight' = inflight
          /\ snapshotToken' = snapshotToken]_vars

\* call("no.such.endpoint") threw NotFoundError while another call was in flight
C15_Witness ==
    /\ obs.kind = "throw"
    /\ obs.endpointId = "no.such.endpoint"
    /\ obs.error.name = "TechnitiumNotFoundError"
    /\ ~obs.fetched
    /\ BagCardinality(inflight) = 1
    /\ timers = 1

----------------------------------------------------------------------------
(* The propagation specification: calls, logins and logouts that fail in   *)
(* every way, some of them at the same time.                               *)

PropagationInFlight == 2

PropagationResponses == {EmptyOkResponse, LoginOkResponse, InvalidTokenResponse, NotFoundResponse}

InitPropagation == \E tk \in {Undefined, Str("F")} : Construct(ClientOptions(tk, Str("admin"), Undefined))

NextPropagation ==
    \/ \E tk \in {Undefined, Str("E")} :
          Call("zones.list", [NoOptions EXCEPT !.token = tk], PropagationInFlight)
    \/ Call("no.such.endpoint", NoOptions, PropagationInFlight)
    \/ \E u \in {Undefined, Str("")} : Login([NoOverrides EXCEPT !.username = u], PropagationInFlight)
    \/ Logout(Undefined, PropagationInFlight)
    \/ \E c \in Calls : TimerFire(c)
    \/ \E c \in Calls : FetchResolve(c)
    \/ \E c \in Calls : FetchReject(c)
    \/ \E c \in Calls : FetchAborted(c)
    \/ \E c \in Calls, r \in PropagationResponses : Finish(c, r)

SpecPropagation == InitPropagation /\ [][NextPropagation]_vars

----------------------------------------------------------------------------
(* No retries, errors unchanged: C16, under SpecPropagation.               *)

\* a step hands one request to the transport exactly when it is the start of a call, and
\* the return or throw of a call that had reached fetch ends that one request
OneRequestPerCall ==
    BagCardinality(inflight') =
        IF obs'.kind = "fetch" THEN BagCardinality(inflight) + 1
        ELSE IF obs'.kind \in {"return", "throw"} /\ obs'.fetched THEN BagCardinality(inflight) - 1
        ELSE BagCardinality(inflight)

\* the error that the code constructed is the error the caller gets
ErrorsReachCallerUnchanged ==
    /\ (Responded /\ ~(obs.call.response.status \in 200..299))
       => /\ obs.kind = "throw"
          /\ obs.error = TechnitiumHttpError(obs.endpointId, obs.call.response.status,
                                             safeParseJson(obs.call))
    /\ (Decoded /\ IsString(Get(DecodedEnvelope, "status"))
        /\ Get(DecodedEnvelope, "status").s \notin {"", "ok"})
       => /\ obs.kind = "throw"
          /\ obs.error.name = "TechnitiumApiError"
          /\ obs.error.status = Get(DecodedEnvelope, "status").s
          /\ obs.error.payload = DecodedEnvelope
    /\ (obs.kind = "throw" /\ ~obs.fetched)
       => obs.error \in
            { TechnitiumNotFoundError(obs.endpointId),
              TechnitiumConfigurationError("Technitium API token is required but missing. Use login() or setToken()."),
              TechnitiumConfigurationError("Username and password are required for login."),
              TechnitiumConfigurationError("No session token available for logout.") }

\* C16: the dispatcher does not retry: each call() hands one request to the transport at
\* most, and an HttpError, ApiError, ConfigurationError or NotFoundError raised during the
\* call reaches the caller as it was raised, neither wrapped nor reclassified.
C16_NoRetryErrorsUnchanged == [][OneRequestPerCall]_vars /\ []ErrorsReachCallerUnchanged

\* a 404 ended a call with HttpError and no request of that call is left in flight
C16_Witness ==
    /\ Responded
    /\ obs.op = "call"
    /\ obs.call.response.status = 404
    /\ obs.kind = "throw" /\ obs.error.name = "TechnitiumHttpError"
    /\ inflight = EmptyBag

----------------------------------------------------------------------------
(* The session specification: logins, logouts and setToken calls that      *)
(* interleave on one client.                                               *)

SessionInFlight == 2

\* a second login answer, with another token
OtherLoginResponse ==
    Response(200, Str("application/json"),
             JsonBody("{status:ok,token:M}", Obj(<< <<"status", Str("ok")>>, <<"token", Str("M")>> >>)))

SessionResponses == {LoginOkResponse, OtherLoginResponse, InvalidTokenResponse}

SessionSources == {"omitted", "config"}

InitSession == \E tk \in {Undefined, Str("F")} : Construct(ClientOptions(tk, Str("admin"), Undefined))

NextSession ==
    \/ \E tk \in {Undefined, Str(""), Str("T")}, src \in SessionSources : SetToken(tk, src)
    \/ SnapshotToken
    \/ Login(NoOverrides, SessionInFlight)
    \/ \E tk \in {Undefined, Str("X")} : Logout(tk, SessionInFlight)
    \/ Call("zones.list", NoOptions, SessionInFlight)
    \/ \E c \in Calls : TimerFire(c)
    \/ \E c \in Calls : FetchResolve(c)
    \/ \E c \in Calls : FetchReject(c)
    \/ \E c \in Calls : FetchAborted(c)
    \/ \E c \in Calls, r \in SessionResponses : Finish(c, r)

SpecSession == InitSession /\ [][NextSession]_vars

----------------------------------------------------------------------------
(* The session token: C17 and C18, under SpecSession.                      *)

\* the pair that the setToken call of the step was asked to store
WrittenBySetToken ==
    [token |-> obs'.token, source |-> IF obs'.source = "omitted" THEN "explicit" ELSE obs'.source]

\* C17: setToken(token, source) overwrites the session token and its provenance with the
\* values given (any string or undefined, the provenance "explicit" when none is given),
\* whatever they were before, and snapshotToken() returns the pair last written and
\* changes nothing.
C17_SetTokenOverwritesSnapshotReads ==
    [][/\ obs'.kind = "setToken" =>
            /\ snapshotToken' = WrittenBySetToken
            /\ UNCHANGED <<configVars, auth, requestTimeoutMs, inflight, timers>>
       /\ obs'.kind = "snapshot" =>
            /\ obs'.value = snapshotToken
            /\ UNCHANGED <<configVars, auth, requestTimeoutMs, sessionToken, tokenSource, inflight, timers>>]_vars

\* setToken("", "config") was the last write on a client configured without a token,
\* an operation was in flight, and a snapshot read the pair back
C17_Witness ==
    /\ obs.kind = "snapshot"
    /\ obs.value = [token |-> Str(""), source |-> "config"]
    /\ auth.token = Undefined
    /\ inflight # EmptyBag

\* the step was a write of the session token, and the pair it wrote
LoginWrote == obs'.kind = "return" /\ obs'.op = "login"
LogoutWrote == obs'.kind = "return" /\ obs'.op = "logout" /\ obs'.call.implicitLogout

PairWritten ==
    IF obs'.kind = "setToken" THEN WrittenBySetToken
    ELSE IF LoginWrote THEN [token |-> Get(obs'.result.data, "token"), source |-> "login"]
    ELSE [token |-> Undefined, source |-> "explicit"]

\* C18: when logins, logouts and setToken calls interleave on one client, the last
\* writer wins: each write stores its own token together with its own provenance,
\* whatever is in flight, and no other step changes the pair, so snapshotToken() is
\* always the pair of the last write; the session token is the only state they share
\* (a write changes neither the calls in flight nor the timers of other calls).
C18_LastWriterWins ==
    [][/\ (obs'.kind = "setToken" \/ LoginWrote \/ LogoutWrote) => snapshotToken' = PairWritten
       /\ ~(obs'.kind = "setToken" \/ LoginWrote \/ LogoutWrote) => snapshotToken' = snapshotToken
       /\ obs'.kind \in {"setToken", "snapshot"} => UNCHANGED <<inflight, timers>>
       /\ obs'.kind \in {"return", "throw"} /\ obs'.fetched
          => /\ \E c \in Calls : c.op = obs'.op /\ inflight' = inflight (-) SetToBag({c})
             /\ timers' = ClearTimeout(timers, obs'.call)]_vars

\* a login that was in flight while a later setToken("T") ran completed last: the
\* snapshot is the login's pair
C18_Witness ==
    /\ obs.kind = "return" /\ obs.op = "login"
    /\ snapshotToken = [token |-> Str("M"), source |-> "login"]
    /\ \E c \in Calls : c.op = "login"

----------------------------------------------------------------------------
(* The configuration resolver (src/unnamed/part_000).                      *)

\* o[key] = value on a plain object: an own key keeps its place, a new one comes last
ObjSet(o, key, value) ==
    IF HasKey(o, key)
    THEN Obj([i \in 1..Len(o.e) |-> IF o.e[i][1] = key THEN <<key, value>> ELSE o.e[i]])
    ELSE Obj(Append(o.e, <<key, value>>))

\* Object.keys(o)
ObjKeys(o) == [i \in 1..Len(o.e) |-> o.e[i][1]]

fallbackConfig ==
    Obj(<< <<"app", Obj(<< <<"name", Str("technitiumdns-cli")>>,
                           <<"version", Str("0.2.1")>>,
                           <<"description", Str("Interact with Technitium DNS Server over its HTTP API")>> >>)>>,
           <<"api", Obj(<< <<"baseUrl", Str("http://localhost:5380/api")>>,
                           <<"timeoutMs", Num(15000)>>,
                           <<"verifyTls", Bool(TRUE)>> >>)>>,
           <<"auth", Obj(<< <<"username", Str("admin")>>,
                            <<"password", Str("change-me")>>,
                            <<"token", Str("")>>,
                            <<"totp", Str("")>> >>)>>,
           <<"cli", Obj(<< <<"defaultOutputFormat", Str("json")>>,
                           <<"prettyPrintJson", Bool(TRUE)>>,
                           <<"colorizeJson", Bool(TRUE)>> >>)>> >>)

\* the sections of a Config, in the order the code lists them
ConfigSections == <<"app", "api", "auth", "cli">>

isPlainObject(value) == Truthy(value) /\ value.t = "object"

\* normalizePatch, from section i on
RECURSIVE NormalizeSections(_, _, _)
NormalizeSections(record, patch, i) ==
    IF i > Len(ConfigSections) THEN patch
    ELSE LET section == ConfigSections[i]
         IN NormalizeSections(record,
                              IF isPlainObject(Get(record, section))
                              THEN ObjSet(patch, section, Get(record, section)) ELSE patch,
                              i + 1)

normalizePatch(source) ==
    IF ~Truthy(source) \/ ~isPlainObject(source) THEN Obj(<<>>)
    ELSE NormalizeSections(source, Obj(<<>>), 1)

ENV_PREFIX == "TECHNITIUMDNS_CLI_"

ENV_KEY_MAP ==
    Obj(<< <<"app", Obj(<< <<"NAME", Str("name")>>, <<"VERSION", Str("version")>>,
                           <<"DESCRIPTION", Str("description")>> >>)>>,
           <<"api", Obj(<< <<"BASEURL", Str("baseUrl")>>, <<"TIMEOUTMS", Str("timeoutMs")>>,
                           <<"VERIFYTLS", Str("verifyTls")>> >>)>>,
           <<"auth", Obj(<< <<"USERNAME", Str("username")>>, <<"PASSWORD", Str("password")>>,
                            <<"TOKEN", Str("token")>>, <<"TOTP", Str("totp")>> >>)>>,
           <<"cli", Obj(<< <<"DEFAULTOUTPUTFORMAT", Str("defaultOutputFormat")>>,
                           <<"PRETTYPRINTJSON", Str("prettyPrintJson")>>,
                           <<"COLORIZEJSON", Str("colorizeJson")>> >>)>> >>)

\* the words of the model with letters of both cases: <<word, lower case, upper case>>;
\* every other word of the model is in upper case, digits or empty
CaseTable ==
    << <<"api", "api", "API">>, <<"Api", "api", "API">>, <<"auth", "auth", "AUTH">>,
       <<"timeoutms", "timeoutms", "TIMEOUTMS">>, <<"TimeoutMs", "timeoutms", "TIMEOUTMS">>,
       <<"verifytls", "verifytls", "VERIFYTLS">>, <<"token", "token", "TOKEN">>,
       <<"API", "api", "API">>, <<"AUTH", "auth", "AUTH">>, <<"CLI", "cli", "CLI">>,
       <<"APP", "app", "APP">>, <<"AUHT", "auht", "AUHT">>,
       <<"Off", "off", "OFF">>, <<"TRUE", "true", "TRUE">>, <<"Maybe", "maybe", "MAYBE">> >>

\* String.prototype.toLowerCase and toUpperCase, on the words of the model
toLowerCase(s) ==
    IF \E i \in 1..Len(CaseTable) : CaseTable[i][1] = s
    THEN CaseTable[CHOOSE i \in 1..Len(CaseTable) : CaseTable[i][1] = s][2] ELSE s

toUpperCase(s) ==
    IF \E i \in 1..Len(CaseTable) : CaseTable[i][1] = s
    THEN CaseTable[CHOOSE i \in 1..Len(CaseTable) : CaseTable[i][1] = s][3] ELSE s

\* Number(raw), on the raw values of the model; NaN and Infinity are not finite
NotFinite == Opaque("NaN")

Number(raw) ==
    CASE raw = "9000" -> Num(9000)
      [] raw = "12000" -> Num(12000)
      [] raw = "0" -> Num(0)
      [] raw = "" -> Num(0)
      [] OTHER -> NotFinite

\* parseEnvValue; the raw values of the model have no blanks around them, so trim()
\* changes nothing
parseEnvValue(section, property, raw) ==
    LET baseline == Get(Get(fallbackConfig, section), property)
    IN IF baseline.t = "number"
       THEN IF Number(raw) # NotFinite THEN Number(raw) ELSE baseline
       ELSE IF baseline.t = "boolean"
       THEN IF toLowerCase(raw) \in {"1", "true", "yes", "on"} THEN Bool(TRUE)
            ELSE IF toLowerCase(raw) \in {"0", "false", "no", "off"} THEN Bool(FALSE)
            ELSE baseline
       ELSE Str(raw)

\* an entry of process.env: its name, cut where the code cuts it (the prefix, then the
\* pieces that split("__") gives), and its value
EnvVar(prefix, parts, value) == [prefix |-> prefix, parts |-> parts, value |-> value]

\* loadEnvOverrides: the loop over Object.entries(process.env), from entry i on;
\* overrides holds appOverrides, apiOverrides, authOverrides and cliOverrides
RECURSIVE CollectEnvOverrides(_, _, _)
CollectEnvOverrides(environ, overrides, i) ==
    IF i > Len(environ) THEN overrides
    ELSE LET entry == environ[i]
             sectionKeyRaw == IF Len(entry.parts) >= 1 THEN entry.parts[1] ELSE ""
             propertyKeyRaw == IF Len(entry.parts) >= 2 THEN entry.parts[2] ELSE ""
             sectionKey == toLowerCase(sectionKeyRaw)
             propertyMap == Get(ENV_KEY_MAP, sectionKey)
             propertyKey == Get(propertyMap, toUpperCase(propertyKeyRaw))
         IN IF entry.prefix # ENV_PREFIX \/ entry.value = Undefined
               \/ sectionKeyRaw = "" \/ propertyKeyRaw = ""
               \/ ~Truthy(propertyMap) \/ ~Truthy(propertyKey)
            THEN CollectEnvOverrides(environ, overrides, i + 1)
            ELSE CollectEnvOverrides(
                     environ,
                     ObjSet(overrides, sectionKey,
                            ObjSet(Get(overrides, sectionKey), propertyKey.s,
                                   parseEnvValue(sectionKey, propertyKey.s, entry.value.s))),
                     i + 1)

\* the sections of the overrides that got a key, from section i on
RECURSIVE NonEmptySections(_, _, _)
NonEmptySections(collected, overrides, i) ==
    IF i > Len(ConfigSections) THEN overrides
    ELSE LET section == ConfigSections[i]
         IN NonEmptySections(collected,
                             IF Len(Get(collected, section).e) > 0
                             THEN ObjSet(overrides, section, Get(collected, section))
                             ELSE overrides,
                             i + 1)

loadEnvOverrides(environ) ==
    NonEmptySections(
        CollectEnvOverrides(environ,
                            Obj(<< <<"app", Obj(<<>>)>>, <<"api", Obj(<<>>)>>,
                                   <<"auth", Obj(<<>>)>>, <<"cli", Obj(<<>>)>> >>), 1),
        Obj(<<>>), 1)

\* the loop of mergeSection over Object.keys(overlay), from key i on
RECURSIVE AssignDefined(_, _, _)
AssignDefined(result, overlay, i) ==
    IF i > Len(overlay.e) THEN result
    ELSE AssignDefined(IF overlay.e[i][2] # Undefined
                       THEN ObjSet(result, overlay.e[i][1], overlay.e[i][2]) ELSE result,
                       overlay, i + 1)

\* a slip: the overlay takes the place of the section
mergeSection_Replace(base, overlay) == IF ~Truthy(overlay) THEN base ELSE overlay

mergeSection(base, overlay) == IF ~Truthy(overlay) THEN base ELSE AssignDefined(base, overlay, 1)

\* { app: { ...config.app }, ... }: spreading a section that is missing gives {}
cloneConfig(config) ==
    Obj([i \in 1..Len(ConfigSections) |->
            <<ConfigSections[i],
              IF Truthy(Get(config, ConfigSections[i])) THEN Get(config, ConfigSections[i])
              ELSE Obj(<<>>)>>])

\* one round of the loop of mergeConfig
MergeOverlay(result, overlay) ==
    IF ~Truthy(overlay) THEN result
    ELSE Obj([i \in 1..Len(ConfigSections) |->
                <<ConfigSections[i],
                  mergeSection(Get(result, ConfigSections[i]), Get(overlay, ConfigSections[i]))>>])

RECURSIVE MergeOverlays(_, _, _)
MergeOverlays(result, overlays, i) ==
    IF i > Len(overlays) THEN result
    ELSE MergeOverlays(MergeOverlay(result, overlays[i]), overlays, i + 1)

\* a slip: the overlays are applied last to first
mergeConfig_Reversed(base, overlays) ==
    MergeOverlays(cloneConfig(base), [i \in 1..Len(overlays) |-> overlays[Len(overlays) + 1 - i]], 1)

mergeConfig(base, overlays) == MergeOverlays(cloneConfig(base), overlays, 1)

\* the loop of stripUndefined over Object.keys(section), from key i on
RECURSIVE stripUndefinedFrom(_, _)
stripUndefinedFrom(section, i) ==
    IF i > Len(section.e) THEN <<>>
    ELSE (IF section.e[i][2] # Undefined THEN <<section.e[i]>> ELSE <<>>)
         \o stripUndefinedFrom(section, i + 1)

stripUndefined(section) == Obj(stripUndefinedFrom(section, 1))

\* serialized.replace(/(\d)_(?=\d)/g, "$1") on a string value of the serialized text:
\* of the strings of the model only "1_2" has an underscore between two digits
StripDigitGrouping(value) == IF value = Str("1_2") THEN Str("12") ELSE value

\* the text that serializeConfig gives, as the document that TOML.parse reads from it:
\* TOML.stringify writes 15000 as 15_000 and the replace takes the underscore out again,
\* in numbers and in strings alike
SerializedSection(section) ==
    LET stripped == stripUndefined(section)
    IN Obj([i \in 1..Len(stripped.e) |-> <<stripped.e[i][1], StripDigitGrouping(stripped.e[i][2])>>])

serializeConfig(config) ==
    [valid |-> TRUE,
     doc |-> Obj([i \in 1..Len(ConfigSections) |->
                    <<ConfigSections[i], SerializedSection(Get(config, ConfigSections[i]))>>])]

\* serializeConfig(fallbackConfig)
embeddedDefaultToml == serializeConfig(fallbackConfig)

\* a text that TOML.parse rejects
InvalidToml == [valid |-> FALSE, doc |-> Undefined]

\* the file system: no file, or a file with its text
NoFile == [exists |-> FALSE]
FileWith(text) == [exists |-> TRUE, text |-> text]

\* ensureUserConfigExists: the file after it; a failure of mkdirSync or writeFileSync is
\* logged and leaves no file
ensureUserConfigExists(file, canWrite) ==
    IF file.exists THEN file
    ELSE IF canWrite THEN FileWith(embeddedDefaultToml) ELSE file

\* loadUserConfig: the cache and the file after it
loadUserConfig(cache, file, canWrite, canRead) ==
    IF Truthy(cache) THEN [cache |-> cache, file |-> file]
    ELSE LET ensured == ensureUserConfigExists(file, canWrite)
         IN [cache |-> IF ensured.exists /\ canRead /\ ensured.text.valid
                       THEN normalizePatch(ensured.text.doc) ELSE Obj(<<>>),
             file |-> ensured]

\* a slip: a failure of the file layer takes the environment layer with it
loadConfig_FallbackOnly(loaded, environ) ==
    IF loaded.cache = Obj(<<>>) THEN fallbackConfig
    ELSE mergeConfig(fallbackConfig, <<loaded.cache, loadEnvOverrides(environ)>>)

\* loadConfig: the Configuration it returns, given what loadUserConfig left; nothing in
\* its try block throws, loadUserConfig catches the failures of the file system itself
loadConfig(loaded, environ) ==
    mergeConfig(fallbackConfig, <<loaded.cache, loadEnvOverrides(environ)>>)

\* the evaluation of the module: appConfig = loadConfig(), on an empty cache
ImportConfig(environ, file, canWrite, canRead) ==
    LET loaded == loadUserConfig(Null, file, canWrite, canRead)
    IN /\ processEnv = environ
       /\ userConfigFile = loaded.file
       /\ userConfigCache = loaded.cache
       /\ obs = [kind |-> "import",
                 read |-> loaded.file.exists /\ canRead /\ loaded.file.text.valid,
                 value |-> loadConfig(loaded, environ)]
       \* no dispatcher has been constructed
       /\ auth = Undefined
       /\ requestTimeoutMs = 0
       /\ sessionToken = Undefined
       /\ tokenSource = "unknown"
       /\ inflight = EmptyBag
       /\ timers = 0

\* the variables of the dispatcher
clientVars == <<auth, requestTimeoutMs, sessionToken, tokenSource, inflight, timers>>

\* a caller invokes loadConfig()
LoadConfig(canWrite, canRead) ==
    LET loaded == loadUserConfig(userConfigCache, userConfigFile, canWrite, canRead)
    IN /\ userConfigFile' = loaded.file
       /\ userConfigCache' = loaded.cache
       /\ obs' = [kind |-> "loadConfig", value |-> loadConfig(loaded, processEnv)]
       /\ UNCHANGED <<processEnv, clientVars>>

\* a caller invokes updateStoredAuthToken(token); writeFileSync throws when ~canWrite
UpdateStoredAuthToken(token, canWrite, canRead) ==
    LET loaded == loadUserConfig(userConfigCache, userConfigFile, canWrite, canRead)
        merged == mergeConfig(fallbackConfig, <<loaded.cache>>)
        current == ObjSet(merged, "auth",
                          ObjSet(Get(merged, "auth"), "token", Coalesce(token, Str(""))))
        ensured == ensureUserConfigExists(loaded.file, canWrite)
    IN /\ userConfigFile' = IF canWrite THEN FileWith(serializeConfig(current)) ELSE ensured
       /\ userConfigCache' = IF canWrite THEN cloneConfig(current) ELSE loaded.cache
       /\ obs' = [kind |-> "updateStoredAuthToken", token |-> token, written |-> current,
                  result |-> canWrite]
       /\ UNCHANGED <<processEnv, clientVars>>

----------------------------------------------------------------------------
(* The configuration specification: one process, the environment and the   *)
(* file it starts with, and its calls of the resolver.                     *)

Environments ==
    { <<>>,
      << EnvVar(ENV_PREFIX, <<"API", "TIMEOUTMS">>, Str("9000")) >>,
      << EnvVar(ENV_PREFIX, <<"API", "TIMEOUTMS">>, Str("abc")),
         EnvVar(ENV_PREFIX, <<"CLI", "PRETTYPRINTJSON">>, Str("Maybe")) >>,
      << EnvVar(ENV_PREFIX, <<"api", "verifytls">>, Str("Off")),
         EnvVar(ENV_PREFIX, <<"AUTH", "TOKEN">>, Str("")) >>,
      << EnvVar(ENV_PREFIX, <<"AUHT", "TOKEN">>, Str("x")),
         EnvVar(ENV_PREFIX, <<"API", "NOPE">>, Str("1")),
         EnvVar(ENV_PREFIX, <<"API">>, Str("1")),
         EnvVar("OTHER_", <<"API", "TIMEOUTMS">>, Str("9000")),
         EnvVar(ENV_PREFIX, <<"AUTH", "USERNAME">>, Undefined) >>,
      << EnvVar(ENV_PREFIX, <<"API", "TIMEOUTMS">>, Str("9000")),
         EnvVar(ENV_PREFIX, <<"Api", "TimeoutMs", "X">>, Str("0")),
         EnvVar(ENV_PREFIX, <<"AUTH", "TOKEN">>, Str("envtoken")) >> }

TomlDocuments ==
    { Obj(<<>>),
      Obj(<< <<"api", Obj(<< <<"timeoutMs", Num(12000)>> >>)>> >>),
      Obj(<< <<"api", Obj(<< <<"timeoutMs", Num(12000)>>, <<"baseUrl", Str("https://dns.example/api")>> >>)>>,
             <<"auth", Obj(<< <<"token", Str("filetoken")>> >>)>>,
             <<"cli", Obj(<< <<"prettyPrintJson", Bool(FALSE)>> >>)>> >>),
      Obj(<< <<"api", Num(5)>>,
             <<"auth", Obj(<< <<"token", Str("filetoken")>>, <<"realm", Str("lab")>> >>)>>,
             <<"extra", Obj(<< <<"x", Num(1)>> >>)>> >>),
      Obj(<< <<"auth", Obj(<< <<"password", Str("1_2")>> >>)>> >>) }

InitialFiles ==
    {NoFile, FileWith(InvalidToml)} \cup { FileWith([valid |-> TRUE, doc |-> d]) : d \in TomlDocuments }

StoredTokens == {Undefined, Str(""), Str("stored"), Str("1_2")}

InitConfig ==
    \E environ \in Environments, file \in InitialFiles, canWrite \in BOOLEAN, canRead \in BOOLEAN :
        ImportConfig(environ, file, canWrite, canRead)

NextConfig ==
    \/ \E canWrite \in BOOLEAN, canRead \in BOOLEAN : LoadConfig(canWrite, canRead)
    \/ \E token \in StoredTokens, canWrite \in BOOLEAN, canRead \in BOOLEAN :
          UpdateStoredAuthToken(token, canWrite, canRead)

SpecConfig == InitConfig /\ [][NextConfig]_vars

----------------------------------------------------------------------------
(* Precedence and completeness of the configuration: C19 and C20, under    *)
(* SpecConfig.                                                             *)

\* the last step resolved a Configuration
Resolved == obs.kind \in {"import", "loadConfig"}

\* the fields of a section of the embedded defaults
FieldsOf(section) == ObjKeys(Get(fallbackConfig, section))

\* the entry of process.env is a recognized variable of the field, with a value
RecognizedFor(entry, section, field) ==
    /\ entry.prefix = ENV_PREFIX
    /\ entry.value # Undefined
    /\ Len(entry.parts) >= 2
    /\ toLowerCase(entry.parts[1]) = section
    /\ Get(Get(ENV_KEY_MAP, section), toUpperCase(entry.parts[2])) = Str(field)

EnvSets(section, field) ==
    \E i \in 1..Len(processEnv) : RecognizedFor(processEnv[i], section, field)

\* the override of the field: the coerced value of its last recognized variable
EnvOverride(section, field) ==
    LET last == CHOOSE i \in 1..Len(processEnv) :
                    /\ RecognizedFor(processEnv[i], section, field)
                    /\ \A j \in (i + 1)..Len(processEnv) : ~RecognizedFor(processEnv[j], section, field)
    IN parseEnvValue(section, field, processEnv[last].value.s)

\* the file layer of the process: at the import what the file on disk holds, when it
\* could be read and parsed; afterwards the layer that the process keeps
FileLayer ==
    IF obs.kind = "import"
    THEN IF obs.read THEN userConfigFile.text.doc ELSE Obj(<<>>)
    ELSE userConfigCache

FileDefines(section, field) ==
    isPlainObject(Get(FileLayer, section)) /\ HasKey(Get(FileLayer, section), field)

\* C19: every field of a resolved Configuration is the environment override when a
\* recognized variable of the field is set, otherwise the value of the persisted file
\* when the file defines the field, otherwise the embedded default; field by field.
C19_EnvOverFileOverDefault ==
    Resolved =>
        \A s \in 1..Len(ConfigSections) :
            LET section == ConfigSections[s]
            IN \A f \in 1..Len(FieldsOf(section)) :
                   LET field == FieldsOf(section)[f]
                   IN Get(Get(obs.value, section), field) =
                          IF EnvSets(section, field) THEN EnvOverride(section, field)
                          ELSE IF FileDefines(section, field) THEN Get(Get(FileLayer, section), field)
                          ELSE Get(Get(fallbackConfig, section), field)

\* default timeoutMs 15000, file 12000, TECHNITIUMDNS_CLI_API__TIMEOUTMS=9000:
\* loadConfig() resolves 9000, baseUrl, which only the file sets, is the file's, and
\* verifyTls, which nothing sets, is the default
C19_Witness ==
    /\ obs.kind = "loadConfig"
    /\ processEnv = << EnvVar(ENV_PREFIX, <<"API", "TIMEOUTMS">>, Str("9000")) >>
    /\ userConfigFile.exists /\ userConfigFile.text.valid
    /\ userConfigCache = normalizePatch(userConfigFile.text.doc)
    /\ Get(Get(userConfigFile.text.doc, "api"), "timeoutMs") = Num(12000)
    /\ Get(Get(obs.value, "api"), "timeoutMs") = Num(9000)
    /\ Get(Get(obs.value, "api"), "baseUrl") = Str("https://dns.example/api")
    /\ Get(Get(obs.value, "api"), "verifyTls") = Bool(TRUE)

\* all four sections, each with every field of the embedded defaults defined
FullyPopulated(config) ==
    \A s \in 1..Len(ConfigSections) :
        LET section == ConfigSections[s]
        IN /\ isPlainObject(Get(config, section))
           /\ \A f \in 1..Len(FieldsOf(section)) :
                  /\ HasKey(Get(config, section), FieldsOf(section)[f])
                  /\ Get(Get(config, section), FieldsOf(section)[f]).t \notin {"undefined", "null"}

\* C20: every Configuration that the resolver returns, and every Configuration that
\* updateStoredAuthToken writes, has the four sections with every field of the embedded
\* defaults present and defined, whatever the file and the environment hold.
C20_EverySectionFullyPopulated ==
    /\ Resolved => FullyPopulated(obs.value)
    /\ obs.kind = "updateStoredAuthToken" =>
          /\ FullyPopulated(obs.written)
          /\ obs.result => (userConfigFile.exists /\ userConfigFile.text.valid
                            /\ FullyPopulated(userConfigFile.text.doc))

\* a file that set one field of one section only was rewritten in full
C20_Witness ==
    /\ obs.kind = "updateStoredAuthToken" /\ obs.result
    /\ obs.token = Str("stored")
    /\ Get(Get(obs.written, "api"), "timeoutMs") = Num(12000)
    /\ Get(Get(obs.written, "api"), "baseUrl") = Str("http://localhost:5380/api")
    /\ FullyPopulated(userConfigFile.text.doc)

----------------------------------------------------------------------------
(* Failures of the file layer: C21, under SpecConfig.                      *)

\* the file layer could not be had: the file could not be created, read or parsed
FileLayerFailed ==
    \/ ~userConfigFile.exists
    \/ ~userConfigFile.text.valid
    \/ obs.kind = "import" /\ ~obs.read

\* C21: loadConfig() always returns a Configuration; when creating, reading or parsing
\* the persisted file failed, it is the embedded defaults under the environment
\* overrides, and in every case each field of the embedded defaults is defined in it.
C21_LoadConfigNeverFails ==
    Resolved =>
        /\ FullyPopulated(obs.value)
        /\ FileLayerFailed =>
              /\ userConfigCache = Obj(<<>>)
              /\ obs.value = mergeConfig(fallbackConfig, <<loadEnvOverrides(processEnv)>>)

\* the file does not parse and TECHNITIUMDNS_CLI_API__TIMEOUTMS=9000: loadConfig()
\* returns the defaults with timeoutMs 9000
C21_Witness ==
    /\ obs.kind = "loadConfig"
    /\ userConfigFile = FileWith(InvalidToml)
    /\ processEnv = << EnvVar(ENV_PREFIX, <<"API", "TIMEOUTMS">>, Str("9000")) >>
    /\ Get(Get(obs.value, "api"), "timeoutMs") = Num(9000)
    /\ Get(obs.value, "auth") = Get(fallbackConfig, "auth")
    /\ Get(Get(obs.value, "api"), "baseUrl") = Get(Get(fallbackConfig, "api"), "baseUrl")

----------------------------------------------------------------------------
(* The persisted format, character by character: what TOML.stringify       *)
(* writes for a value, what the replace of serializeConfig does to the     *)
(* text, and what TOML.parse reads back. Texts are sequences of            *)
(* characters; so are the string values of the Configurations below.       *)

MaxTextLen == 3

DigitChars == <<"0", "1", "2", "3", "4", "5", "6", "7", "8", "9">>

IsDigit(c) == \E d \in 1..Len(DigitChars) : DigitChars[d] = c

\* String(value) of a non-negative integer
RECURSIVE DigitsOf(_)
DigitsOf(n) ==
    IF n < 10 THEN <<DigitChars[n + 1]>>
    ELSE DigitsOf(n \div 10) \o <<DigitChars[(n % 10) + 1]>>

\* TOML.stringify of an integer: an underscore before every group of three digits,
\* 15000 is written 15_000
RECURSIVE GroupDigits(_, _)
GroupDigits(digits, i) ==
    IF i > Len(digits) THEN <<>>
    ELSE <<digits[i]>>
         \o (IF i < Len(digits) /\ (Len(digits) - i) % 3 = 0 THEN <<"_">> ELSE <<>>)
         \o GroupDigits(digits, i + 1)

\* TOML.stringify of a value of a section: a grouped integer, true or false, or a basic
\* string in quotes (the strings of the model have no character that needs an escape)
TOMLstringify(value) ==
    IF value.t = "number" THEN GroupDigits(DigitsOf(value.n), 1)
    ELSE IF value.t = "boolean"
    THEN (IF value.b THEN <<"t", "r", "u", "e">> ELSE <<"f", "a", "l", "s", "e">>)
    ELSE <<"\"">> \o value.s \o <<"\"">>

\* serialized.replace(/(\d)_(?=\d)/g, "$1"): every underscore between two digits goes,
\* wherever in the text it stands
RECURSIVE ReplaceDigitGrouping(_, _)
ReplaceDigitGrouping(text, i) ==
    IF i > Len(text) THEN <<>>
    ELSE (IF /\ text[i] = "_"
             /\ i > 1 /\ IsDigit(text[i - 1])
             /\ i < Len(text) /\ IsDigit(text[i + 1])
          THEN <<>> ELSE <<text[i]>>)
         \o ReplaceDigitGrouping(text, i + 1)

\* the number that TOML.parse reads from the digits up to position i
RECURSIVE ParseInteger(_, _)
ParseInteger(text, i) ==
    IF i = 0 THEN 0
    ELSE IF text[i] = "_" THEN ParseInteger(text, i - 1)
    ELSE 10 * ParseInteger(text, i - 1) + (CHOOSE d \in 0..9 : DigitChars[d + 1] = text[i])

\* TOML.parse of the text of a value
TOMLparse(text) ==
    IF text[1] = "\"" THEN Str(SubSeq(text, 2, Len(text) - 1))
    ELSE IF text = <<"t", "r", "u", "e">> THEN Bool(TRUE)
    ELSE IF text = <<"f", "a", "l", "s", "e">> THEN Bool(FALSE)
    ELSE Num(ParseInteger(text, Len(text)))

\* the text of serializeConfig(config): per section the keys that stripUndefined keeps,
\* each with the text of its value after the replace. A key, " = " and a line break
\* have no digit next to an underscore, so the replace acts within the values only.
serializedText(config) ==
    [s \in 1..Len(ConfigSections) |->
        LET stripped == stripUndefined(Get(config, ConfigSections[s]))
        IN <<ConfigSections[s],
             [i \in 1..Len(stripped.e) |->
                 <<stripped.e[i][1], ReplaceDigitGrouping(TOMLstringify(stripped.e[i][2]), 1)>>]>>]

\* TOML.parse of such a text
parsedText(text) ==
    Obj([s \in 1..Len(text) |->
            <<text[s][1], Obj([i \in 1..Len(text[s][2]) |->
                                  <<text[s][2][i][1], TOMLparse(text[s][2][i][2])>>])>>])

----------------------------------------------------------------------------
(* The round-trip specification: a Configuration, serialized, then parsed. *)

TextAlphabet == {"1", "_", "a"}

Texts == UNION { [1..n -> TextAlphabet] : n \in 0..MaxTextLen }

RoundTripNumbers == {0, 999, 1000, 15000, 1234567}

\* the string fields that the resolver's callers set
StringFields == {"token", "password", "username", "baseUrl"}

\* a Configuration with the shape of the embedded defaults: one string field holds the
\* text s, timeoutMs is n, the boolean fields are b, totp is left undefined or not
ConfigWith(field, s, n, b, totpDefined) ==
    Obj([i \in 1..Len(ConfigSections) |->
            LET section == Get(fallbackConfig, ConfigSections[i])
            IN <<ConfigSections[i],
                 Obj([k \in 1..Len(section.e) |->
                        <<section.e[k][1],
                          IF section.e[k][2].t = "number" THEN Num(n)
                          ELSE IF section.e[k][2].t = "boolean" THEN Bool(b)
                          ELSE IF section.e[k][1] = field THEN Str(s)
                          ELSE IF section.e[k][1] = "totp" /\ ~totpDefined THEN Undefined
                          ELSE Str(<<"a">>)>>])>>])

InitRoundTrip ==
    /\ \E field \in StringFields, s \in Texts, n \in RoundTripNumbers, b \in BOOLEAN,
          totpDefined \in BOOLEAN :
           obs = [kind |-> "config", config |-> ConfigWith(field, s, n, b, totpDefined)]
    /\ processEnv = <<>>
    /\ userConfigFile = NoFile
    /\ userConfigCache = Null
    /\ auth = Undefined
    /\ requestTimeoutMs = 0
    /\ sessionToken = Undefined
    /\ tokenSource = "unknown"
    /\ inflight = EmptyBag
    /\ timers = 0

\* serializeConfig(config)
SerializeConfig ==
    /\ obs.kind = "config"
    /\ obs' = [kind |-> "serialized", config |-> obs.config, text |-> serializedText(obs.config)]
    /\ UNCHANGED <<configVars, clientVars>>

\* TOML.parse(raw) of the serialized text
ParseSerialized ==
    /\ obs.kind = "serialized"
    /\ obs' = [kind |-> "parsed", config |-> obs.config, text |-> obs.text,
               parsed |-> parsedText(obs.text)]
    /\ UNCHANGED <<configVars, clientVars>>

NextRoundTrip == SerializeConfig \/ ParseSerialized

SpecRoundTrip == InitRoundTrip /\ [][NextRoundTrip]_vars

\* C22: a Configuration that was serialized and parsed back equals the original in
\* every field, whatever its numbers and strings are.
C22_SerializeParseRoundTrip ==
    obs.kind = "parsed" =>
        \A s \in 1..Len(ConfigSections) :
            \A f \in 1..Len(FieldsOf(ConfigSections[s])) :
                Get(Get(obs.parsed, ConfigSections[s]), FieldsOf(ConfigSections[s])[f])
                    = Get(Get(obs.config, ConfigSections[s]), FieldsOf(ConfigSections[s])[f])

----------------------------------------------------------------------------
(* What updateStoredAuthToken leaves in the file: C23, under SpecConfig.   *)

\* the step is a call of updateStoredAuthToken that returned true
StoredTokenStep == obs'.kind = "updateStoredAuthToken" /\ obs'.result

\* C23: after updateStoredAuthToken(token) the persisted file has auth.token equal to
\* the given token, the empty string for undefined, and every other field equal to the
\* value of the file layer before the call, or the embedded default where the file
\* layer has none; no value of the environment gets into the file.
C23_StoredTokenOverFileLayer ==
    [][StoredTokenStep =>
          LET before == mergeConfig(fallbackConfig, <<userConfigCache>>)
              after == userConfigFile'.text.doc
          IN /\ userConfigFile'.exists /\ userConfigFile'.text.valid
             /\ \A s \in 1..Len(ConfigSections) :
                    \A f \in 1..Len(FieldsOf(ConfigSections[s])) :
                        LET section == ConfigSections[s]
                            field == FieldsOf(section)[f]
                        IN Get(Get(after, section), field) =
                               IF section = "auth" /\ field = "token"
                               THEN Coalesce(obs'.token, Str(""))
                               ELSE Get(Get(before, section), field)]_vars

----------------------------------------------------------------------------
(* pathAdd / envAdd. A string is a sequence of pieces: a name ("PATH"),    *)
(* ":", "~", "." or a piece that starts with a slash ("/opt"); "~/bin" is  *)
(* <<"~", "/bin">> and the empty string is <<>>. Here process.env maps     *)
(* the names PATH, TEST and HOME to a string or to undefined.              *)

MaxPaths == 2
MaxSegments == 1

SlashPieces == {"/usr", "/opt", "/bin", "/home"}

\* varName.includes("/") || varName.includes("~") || varName.startsWith(".")
LooksLikePath(s) ==
    \/ \E i \in 1..Len(s) : s[i] \in SlashPieces
    \/ \E i \in 1..Len(s) : s[i] = "~"
    \/ Len(s) > 0 /\ s[1] = "."

\* array.reverse()
Reverse(a) == [i \in 1..Len(a) |-> a[Len(a) + 1 - i]]

\* path.startsWith("~/") ? join(process.env.HOME || "~", path.slice(2)) : path
ExpandTilde(path, home) ==
    IF Len(path) >= 2 /\ path[1] = "~" /\ path[2] \in SlashPieces
    THEN (IF home.t = "string" /\ home.s # <<>> THEN home.s ELSE <<"~">>) \o Tail(path)
    ELSE path

\* array.filter(Boolean) on strings: the empty ones go
RECURSIVE FilterBoolean(_)
FilterBoolean(a) ==
    IF a = <<>> THEN <<>>
    ELSE (IF Head(a) # <<>> THEN <<Head(a)>> ELSE <<>>) \o FilterBoolean(Tail(a))

\* array.join(":")
RECURSIVE JoinColon(_)
JoinColon(a) ==
    IF a = <<>> THEN <<>>
    ELSE IF Len(a) = 1 THEN a[1]
    ELSE a[1] \o <<":">> \o JoinColon(Tail(a))

\* a slip: the paths are not reversed
pathAdd_InOrder(environ, args) ==
    LET first == IF args = <<>> THEN <<"PATH">> ELSE args[1]
        asPath == LooksLikePath(first)
        paths == IF asPath THEN args ELSE IF args = <<>> THEN <<>> ELSE Tail(args)
        varName == IF asPath THEN "PATH" ELSE first[1]
        currentValue == IF Truthy(environ[varName]) THEN environ[varName].s ELSE <<>>
        processedPaths == [i \in 1..Len(paths) |-> ExpandTilde(paths[i], environ["HOME"])]
        newValue == JoinColon(FilterBoolean(processedPaths \o <<currentValue>>))
    IN [environ |-> [environ EXCEPT ![varName] = Str(newValue)], result |-> Str(newValue)]

\* pathAdd(...args): process.env after the call and the value returned. An omitted or
\* undefined varName is "PATH".
pathAdd(environ, args) ==
    LET first == IF args = <<>> THEN <<"PATH">> ELSE args[1]
        asPath == LooksLikePath(first)
        paths == IF asPath THEN args ELSE IF args = <<>> THEN <<>> ELSE Tail(args)
        varName == IF asPath THEN "PATH" ELSE first[1]
        currentValue == IF Truthy(environ[varName]) THEN environ[varName].s ELSE <<>>
        reversed == Reverse(paths)
        processedPaths == [i \in 1..Len(reversed) |-> ExpandTilde(reversed[i], environ["HOME"])]
        newValue == JoinColon(FilterBoolean(processedPaths \o <<currentValue>>))
    IN [environ |-> [environ EXCEPT ![varName] = Str(newValue)], result |-> Str(newValue)]

\* the number of colons in the value of a variable
Colons(value) ==
    IF value.t = "string" THEN Cardinality({i \in 1..Len(value.s) : value.s[i] = ":"}) ELSE 0

\* a caller invokes pathAdd or envAdd, while PATH and TEST together have fewer than
\* MaxSegments colons
PathAdd(args) ==
    LET done == pathAdd(processEnv, args)
    IN /\ Colons(processEnv["PATH"]) + Colons(processEnv["TEST"]) < MaxSegments
       /\ processEnv' = done.environ
       /\ obs' = [kind |-> "pathAdd", args |-> args, result |-> done.result]
       /\ UNCHANGED <<userConfigFile, userConfigCache, clientVars>>

----------------------------------------------------------------------------
(* The path specification: one process and its calls of pathAdd.           *)

EnvNames == {"PATH", "TEST", "HOME"}

PathArgs == {<<"/opt">>, <<"~", "/bin">>, <<>>}

PathLists == UNION { [1..n -> PathArgs] : n \in 0..MaxPaths }

\* the argument lists: a variable name and paths, or paths only, as envAdd("./bin")
PathAddArgs ==
    { <<v>> \o ps : v \in {<<"PATH">>, <<"TEST">>}, ps \in PathLists }
        \cup { ps \in PathLists : ps = <<>> \/ LooksLikePath(ps[1]) }
        \cup { <<p>> \o ps : p \in {<<".", "/bin">>}, ps \in {<<>>, << <<"/opt">> >>} }

InitPath ==
    /\ \E path \in {Undefined, Str(<<>>), Str(<<"/usr">>), Str(<<"/usr", ":", "/bin">>)},
          home \in {Undefined, Str(<<"/home">>)} :
           processEnv = [n \in EnvNames |-> IF n = "PATH" THEN path
                                            ELSE IF n = "HOME" THEN home ELSE Undefined]
    /\ userConfigFile = NoFile
    /\ userConfigCache = Null
    /\ obs = [kind |-> "start"]
    /\ auth = Undefined
    /\ requestTimeoutMs = 0
    /\ sessionToken = Undefined
    /\ tokenSource = "unknown"
    /\ inflight = EmptyBag
    /\ timers = 0

NextPath == \E args \in PathAddArgs : PathAdd(args)

SpecPath == InitPath /\ [][NextPath]_vars

----------------------------------------------------------------------------
(* What a call of pathAdd does to the variable: C24, under SpecPath.       *)

\* the variable that a call with these arguments is about, and its paths
TargetOf(args) == IF args = <<>> \/ LooksLikePath(args[1]) THEN "PATH" ELSE args[1][1]

PathsOf(args) == IF args = <<>> \/ LooksLikePath(args[1]) THEN args ELSE Tail(args)

\* the value of a variable as a string, empty when it is unset
ValueOf(environ, name) == IF environ[name].t = "string" THEN environ[name].s ELSE <<>>

\* a in front of b, with a colon between them when neither is empty
InFront(a, b) == IF a = <<>> THEN b ELSE IF b = <<>> THEN a ELSE a \o <<":">> \o b

\* the paths put in front of old one after the other, each exactly as it was given
RECURSIVE PrependedAsGiven(_, _)
PrependedAsGiven(paths, old) ==
    IF paths = <<>> THEN old
    ELSE paths[Len(paths)] \o (IF PrependedAsGiven(SubSeq(paths, 1, Len(paths) - 1), old) = <<>>
                               THEN <<>>
                               ELSE <<":">> \o PrependedAsGiven(SubSeq(paths, 1, Len(paths) - 1), old))

\* the paths put in front of old one after the other, a leading ~/ replaced by the home
\* directory and an empty path left out
RECURSIVE PrependedExpanded(_, _, _)
PrependedExpanded(paths, old, home) ==
    IF paths = <<>> THEN old
    ELSE InFront(ExpandTilde(paths[Len(paths)], home),
                 PrependedExpanded(SubSeq(paths, 1, Len(paths) - 1), old, home))

----------------------------------------------------------------------------
(* The lifecycle specification: one client that logs in, calls, logs out   *)
(* and fails in every way it can, one operation at a time.                 *)

LifecycleInFlight == 1

LifecycleResponses == {LoginOkResponse, EmptyOkResponse, InvalidTokenResponse, NotFoundResponse}

\* a call without and with a per-call token
LifecycleOptions ==
    {NoOptions, ApiCallOptions(Undefined, Str("E"), Undefined, Undefined, Undefined, Undefined)}

\* the arguments that logout is called with
LogoutArguments == {Undefined, Str(""), Str("X")}

InitLifecycle == \E tk \in {Undefined, Str("F")} : Construct(ClientOptions(tk, Str("admin"), Undefined))

\* setToken is not called with undefined here: a session token that is undefined with
\* provenance "explicit" was left by a logout
NextLifecycle ==
    \/ \E u \in {Undefined, Str("")} : Login([NoOverrides EXCEPT !.username = u], LifecycleInFlight)
    \/ \E tk \in LogoutArguments : Logout(tk, LifecycleInFlight)
    \/ \E o \in LifecycleOptions : Call("zones.list", o, LifecycleInFlight)
    \/ Call("no.such.endpoint", NoOptions, LifecycleInFlight)
    \/ \E tk \in {Str(""), Str("T")} : SetToken(tk, "omitted")
    \/ SnapshotToken
    \/ \E c \in Calls : TimerFire(c)
    \/ \E c \in Calls : FetchResolve(c)
    \/ \E c \in Calls : FetchReject(c)
    \/ \E c \in Calls : FetchAborted(c)
    \/ \E c \in Calls, r \in LifecycleResponses : Finish(c, r)

SpecLifecycle == InitLifecycle /\ [][NextLifecycle]_vars

----------------------------------------------------------------------------
(* Login, failure and logout: C25 to C28, under SpecLifecycle.             *)

\* the step starts an operation: it throws before fetch, or hands a request to fetch
Starts(op) == obs'.kind \in {"fetch", "throw"} /\ obs'.op = op /\ (obs'.kind = "throw" => ~obs'.fetched)

\* the step starts call('zones.list') without a per-call token
StartsPlainCall == Starts("call") /\ obs'.endpointId = "zones.list" /\ obs'.options = NoOptions

\* C25: a login() that succeeds stores the token of the server's answer as the session
\* token with provenance "login", so that snapshotToken() returns that pair; while it is
\* the session token, a call on an endpoint that requires a token, without a per-call
\* token, is sent with it; and the login request itself is sent without a `token`
\* parameter, whatever the session token is.
C25_LoginStoresServerToken ==
    [][/\ LoginWrote =>
            snapshotToken' = [token |-> Get(obs'.result.data, "token"), source |-> "login"]
       /\ StartsPlainCall /\ tokenSource = "login" /\ Truthy(sessionToken) =>
            /\ obs'.kind = "fetch"
            /\ SearchGetAll(obs'.url.search, "token") = <<sessionToken.s>>
       /\ obs'.kind = "fetch" /\ obs'.op = "login" =>
            ~SearchHas(obs'.url.search, "token")]_vars

\* on a client configured with token F a login returned token L, and the next
\* call('zones.list') went out with token=L
C25_Witness ==
    /\ obs.kind = "fetch" /\ obs.op = "call" /\ obs.options = NoOptions
    /\ auth.token = Str("F")
    /\ snapshotToken = [token |-> Str("L"), source |-> "login"]
    /\ UrlTokens = <<"L">>

\* C26: a call(), login() or logout() that fails, with whatever error and before or
\* after its request was made, changes neither the session token nor its provenance:
\* not when it starts, not while its request is in flight, not when it throws.
C26_FailureLeavesSessionToken ==
    [][/\ obs'.kind = "throw" => snapshotToken' = snapshotToken
       /\ obs'.kind \in {"fetch", "timer", "abort", "response"} => snapshotToken' = snapshotToken]_vars

\* a logout() of the configured token timed out: the client still holds the token
C26_Witness ==
    /\ obs.kind = "throw" /\ obs.op = "logout" /\ obs.fetched
    /\ obs.call.implicitLogout
    /\ obs.error.name = "TechnitiumTimeoutError"
    /\ snapshotToken = [token |-> Str("F"), source |-> "config"]

\* the token that logout(token) is to send: the argument, else the session token, else
\* the configured token, where an empty string is no token
LogoutToken(token) ==
    IF Truthy(token) THEN token ELSE IF Truthy(sessionToken) THEN sessionToken ELSE auth.token

\* C27: logout(token) sends its request with the explicit argument, else the session
\* token, else the configured token; when it succeeds without an explicit argument the
\* session token is cleared (undefined, "explicit"), with an explicit argument the
\* session token and its provenance stay.
C27_LogoutTokenAndEffect ==
    [][/\ \A token \in LogoutArguments :
            Logout(token, LifecycleInFlight) /\ Truthy(LogoutToken(token)) =>
                /\ obs'.kind = "fetch"
                /\ SearchGetAll(obs'.url.search, "token") = <<LogoutToken(token).s>>
       /\ obs'.kind = "return" /\ obs'.op = "logout" =>
            snapshotToken' = IF obs'.call.implicitLogout
                             THEN [token |-> Undefined, source |-> "explicit"]
                             ELSE snapshotToken]_vars

\* C28: after a logout() without argument succeeded, and until setToken() or login()
\* installs a token, a call on an endpoint that requires a token, without a per-call
\* token, fails with ConfigurationError and is not sent, also on a client that was
\* constructed with a configured token.
C28_NoRequestAfterLogout ==
    [][StartsPlainCall /\ snapshotToken = [token |-> Undefined, source |-> "explicit"] =>
            /\ obs'.kind = "throw"
            /\ obs'.error.name = "TechnitiumConfigurationError"]_vars

----------------------------------------------------------------------------
(* The race specification: calls in flight while setToken, login and       *)
(* logout write the session token. The calls carry the URL that fetch was  *)
(* handed.                                                                 *)

RaceInFlight == 2

InitRace == Construct(ClientOptions(Str("F"), Str("admin"), Undefined))

NextRace ==
    \/ CallKeepingUrl("zones.list", NoOptions, RaceInFlight)
    \/ SetToken(Str("T"), "omitted")
    \/ Login(NoOverrides, RaceInFlight)
    \/ Logout(Undefined, RaceInFlight)
    \/ \E c \in Calls : FetchResolve(c)
    \/ \E c \in Calls : FetchReject(c)
    \/ \E c \in Calls, r \in {LoginOkResponse, InvalidTokenResponse} : Finish(c, r)

SpecRace == InitRace /\ [][NextRace]_vars

----------------------------------------------------------------------------
(* The token of a request in flight: C29, under SpecRace.                  *)

\* the URLs of the requests of call() that are in flight, each as often as it is
UrlsInFlight ==
    LET kept == {c \in Calls : c.op = "call"}
    IN [u \in {c.url : c \in kept} |->
           BagCardinality([c \in {d \in kept : d.url = u} |-> inflight[c]])]

\* the step hands the request of a call() to fetch / the request of a call() is over
CallSent == obs'.kind = "fetch" /\ obs'.op = "call"
CallOver == obs'.kind \in {"return", "throw"} /\ obs'.op = "call" /\ obs'.fetched

\* C29: the token of a request is resolved in the step that invokes call(), from the
\* session token of that moment, and the request goes to the transport in that same
\* step; from then on its URL, token included, does not change: no setToken(), login()
\* or logout() that completes while it is in flight touches it, and it ends with the URL
\* it was sent with; a call invoked after such a write is sent with the token written.
C29_TokenResolvedAtInvocation ==
    [][/\ CallSent =>
            /\ SearchGetAll(obs'.url.search, "token")
                  = <<IF sessionToken # Undefined THEN sessionToken.s ELSE auth.token.s>>
            /\ UrlsInFlight' = UrlsInFlight (+) SetToBag({obs'.url})
       /\ CallOver => UrlsInFlight' = UrlsInFlight (-) SetToBag({obs'.call.url})
       /\ ~CallSent /\ ~CallOver => UrlsInFlight' = UrlsInFlight]_vars

\* a call was sent with the configured token F; while it was in flight a login stored
\* the token L; the call returned, its URL still with token F
C29_Witness ==
    /\ obs.kind = "return" /\ obs.op = "call"
    /\ SearchGetAll(obs.call.url.search, "token") = <<"F">>
    /\ snapshotToken = [token |-> Str("L"), source |-> "login"]

====
